---- MODULE Spec2Model ----
(***************************************************************************)
(* Dual Path Monitoring (DPM.py and its classes) as state machines.        *)
(*                                                                         *)
(* Time is counted in whole units (a unit is the resolution of the log's   *)
(* timestamps).  Timestamps that the code keeps in nanoseconds             *)
(* (time.time_ns) and compares after a division by 10^9 are kept in the    *)
(* same unit; two entries of one history with the same unit are kept apart *)
(* by their order of arrival, as their nanosecond keys are.  The windows   *)
(* of the [Timings] section are configuration values: the model runs with  *)
(* a recency window of 2 units and an adjacency window of 1 unit.          *)
(***************************************************************************)
EXTENDS Integers, Sequences, FiniteSets, TLC

\* ---------------------------------------------------------------- bounds
MaxTime == 3
MaxPending == 2
MaxMdmTime == 3
MaxCalls == 3
MaxCount == 3
MaxAllowance == 3
MaxRoster == 1
MaxReq == 3

\* ------------------------------------------------- configuration values
RecentSecondsEVL4 == 2
AdjacentSecondsEVL4 == 1
TEL_MAX_HISTORY == 2
SCAN_MAX_HISTORY == 2
RecentSecondsSMS == 2

\* Two contact-id codes: the event followed by the claims, and any other.
CodeE == "1131010030"
CodeX == "1441010010"
Codes == {CodeE, CodeX}

Abs(x) == IF x < 0 THEN -x ELSE x
Min(S) == CHOOSE m \in S : \A x \in S : m <= x
Max(S) == CHOOSE m \in S : \A x \in S : m >= x
EmptyDict == [k \in {} |-> ""]
DictSet(f, k, v) == [x \in DOMAIN f \cup {k} |-> IF x = k THEN v ELSE f[x]]
DictPop(f, k) == [x \in DOMAIN f \ {k} |-> f[x]]

VARIABLES
    now,          \* wall clock (time.time_ns, datetime.now)
    recentMsgs,   \* TelnetEVL4.recentMsgs: msg00 and msg03 histories
    CIDevents,    \* ScanEVL4Log.CIDevents: CIDs and CIDflags, keyed by time
    logfile,      \* lines of the EVL4 log past Pygtail's offset
    crashed,      \* an exception left main()
    scanRet,      \* what scanSyslog returned in the step just taken (<<>>:
                  \* None, or no call)
    evFrame,      \* when the %03 frame of event CodeE was read
    evLog,        \* the timestamp of the log line of event CodeE
    evLogScanned, \* the log line of event CodeE has been scanned
    alertsE       \* doAlerts calls made for event CodeE

loopVars == <<now, recentMsgs, CIDevents, logfile, crashed, scanRet,
              evFrame, evLog, evLogScanned, alertsE>>

VARIABLES
    mnow,         \* the clock read by MyModem (time.time_ns)
    commscon,     \* MyModem.commscon: "open", or "None"
    sendFlag,     \* the [SMS] SendSMS flag of the configuration
    SMS_history,  \* MyModem.SMS_history, in key order: [ts, alert, phone]
    prevCall,     \* the sendSMS call before the last one (<<>>: none)
    lastCall,     \* the last sendSMS call: its arguments, start time, return
                  \* code, whether AT+CMGS was written to the serial link, and
                  \* how many times it tried to transmit
    ncalls        \* sendSMS calls made

modemVars == <<mnow, commscon, sendFlag, SMS_history, prevCall, lastCall,
               ncalls>>

VARIABLES
    dayIdx,          \* datetime.now(): the date is Days[dayIdx]
    tod,             \* datetime.now(): 0 at 00:00:00, 1 later in the day
    RenewalDay,      \* [WirelessProvider] RenewalDay
    SMS_Allowance,   \* [WirelessProvider] SMS-Allowance
    phoneCounts,     \* valid phones per roster: red, yellow, reboot, inbound
    SMS_Count,       \* [SMS-Metrics] SMS-Count of DPM-metrics.ini
    SMS_LatestDate,  \* [SMS-Metrics] SMS-LatestDate: <<>> is 'UNKNOWN'
    resultList,      \* what the optimizeSMS call of the step just taken did
    sendCalls        \* phones callCellPhones called sendSMS for in that step

gateVars == <<dayIdx, tod, RenewalDay, SMS_Allowance, phoneCounts, SMS_Count,
              SMS_LatestDate, resultList, sendCalls>>

VARIABLES
    tn               \* TelnetEVL4.tn: "open", or "None"

VARIABLES
    mdmStep,      \* the MyModem operation of the step just taken: which
                  \* one, whether it failed, and the doReconnect runs it made
                  \* (<<>>: none)
    provisioned,  \* the AT set-up sequence has been run since the modem
                  \* last booted
    telStep       \* the TelnetEVL4 operation of the step just taken: which
                  \* one, the exception met, the doReconnect runs it made,
                  \* and whether it raised to its caller (<<>>: none)

escVars == <<mdmStep, provisioned, telStep>>

VARIABLES
    alertIn,      \* doAlerts: the message, the token lists of the
                  \* configuration, doLowerCase and what the pings return
    alertOut,     \* what doAlerts did with alertIn (<<>>: not called yet)
    cidIn,        \* getDescription: the code, the verbosity given to the
                  \* constructor and the name tables
    cidOut        \* what getDescription returned for cidIn (<<>>: not
                  \* called yet)

pureVars == <<alertIn, alertOut, cidIn, cidOut>>

VARIABLES
    zoneIn,       \* doType01: the bits set in the zone bitmap and the frame
                  \* that carries them
    zoneOut,      \* what doType01 returned for zoneIn (<<>>: not called yet)
    keypadIn,     \* doType00: the frame, its status field and keypad text
    keypadOut     \* what doType00 returned for keypadIn (<<>>: not called
                  \* yet)

frameVars == <<zoneIn, zoneOut, keypadIn, keypadOut>>

VARIABLES
    msg00txt,     \* getCurrentStatus: the keypad-status texts of the history,
                  \* oldest first
    gcs,          \* getCurrentStatus: the round x, the read that comes next,
                  \* msg1, msg2 and the value returned (<<>>: not called)
    bootIn,       \* main, start-up: the two links, the reboot permission,
                  \* the retry limit and the persisted count
    bootOut,      \* what the start-up code of main did (<<>>: not run yet)
    smsIn,        \* doInboundSMS: the sender, the words of the request and
                  \* the inbound roster
    smsOut,       \* what doInboundSMS did with smsIn (<<>>: not called yet)
    arrivals,     \* the number of contact-id frames stored so far
    examined,     \* the arrival numbers of the contact-id frames TPI has
                  \* examined, in the order of examination
    scanOut,      \* the last scanSyslog call: the window once the new lines
                  \* are read, the contact-id history, the time, the
                  \* window afterwards and the value returned (<<>>: none)
    chkOut        \* the last checkSyslog call: the window before, the
                  \* contact-id history, the time, the mode, the window
                  \* afterwards and the value returned (<<>>: none)

svcVars == <<msg00txt, gcs, bootIn, bootOut, smsIn, smsOut, arrivals,
             examined, scanOut, chkOut>>

vars == <<loopVars, modemVars, gateVars, tn, escVars, pureVars, frameVars,
          svcVars>>

\* what the actions of one component leave alone
notLoop == <<modemVars, gateVars, tn, escVars, pureVars,
    frameVars, svcVars>>
notModem == <<loopVars, gateVars, tn, escVars, pureVars,
    frameVars, svcVars>>
notGate == <<loopVars, modemVars, tn, escVars, pureVars,
    frameVars, svcVars>>
notEngine == <<now, logfile, crashed, scanRet, evFrame, evLog, evLogScanned,
               alertsE, modemVars, gateVars, escVars, pureVars, frameVars, svcVars>>
notEscalate == <<loopVars, gateVars, tn, telStep, pureVars,
    frameVars, svcVars>>
notSession == <<now, CIDevents, logfile, crashed, scanRet, evFrame, evLog,
                evLogScanned, alertsE, modemVars, gateVars, mdmStep,
                provisioned, pureVars, frameVars, svcVars>>
notAlerts == <<loopVars, modemVars, gateVars, tn, escVars, cidIn, cidOut,
    frameVars, svcVars>>
notZones == <<loopVars, modemVars, gateVars, tn, escVars, pureVars, keypadIn,
             keypadOut, svcVars>>
notKeypad == <<loopVars, modemVars, gateVars, tn, escVars, pureVars, zoneIn,
              zoneOut, svcVars>>
notStatus == <<loopVars, modemVars, gateVars, tn, escVars, pureVars, frameVars,
               bootIn, bootOut, smsIn, smsOut, arrivals, examined,
    scanOut, chkOut>>
notBoot == <<loopVars, modemVars, gateVars, tn, escVars, pureVars, frameVars,
             msg00txt, gcs, smsIn, smsOut, arrivals, examined,
    scanOut, chkOut>>
notInbound == <<loopVars, modemVars, gateVars, tn, escVars, pureVars,
                frameVars, msg00txt, gcs, bootIn, bootOut, arrivals, examined,
    scanOut, chkOut>>
notCorr == <<modemVars, gateVars, tn, escVars, pureVars, frameVars, msg00txt,
             gcs, bootIn, bootOut, smsIn, smsOut, arrivals, examined>>
notOrder == <<now, CIDevents, logfile, scanRet, evFrame, evLog, evLogScanned,
              alertsE, modemVars, gateVars, tn, escVars, pureVars, frameVars,
              bootIn, bootOut, smsIn, smsOut, scanOut, chkOut>>
notDecode == <<loopVars, modemVars, gateVars, tn, escVars, alertIn, alertOut,
    frameVars, svcVars>>

\* ------------------------------------------------------- ScanEVL4Log

RECURSIVE PopOldest(_, _)
PopOldest(f, n) ==
    IF n = 0 THEN f ELSE PopOldest(DictPop(f, Min(DOMAIN f)), n - 1)

\* doPruning: pop the smallest keys until MAX_HISTORY entries are left
doPruning(ev) ==
    LET length == Cardinality(DOMAIN ev.CIDs)
        popLim == IF length > SCAN_MAX_HISTORY THEN length - SCAN_MAX_HISTORY ELSE 0
    IN  [CIDs |-> PopOldest(ev.CIDs, popLim),
         CIDflags |-> PopOldest(ev.CIDflags, popLim)]

\* the Pygtail loop: each CID line sets CIDs[ts1] and CIDflags[ts1] = '0'
RECURSIVE ReadLines(_, _)
ReadLines(ev, lines) ==
    IF lines = <<>> THEN ev
    ELSE ReadLines([CIDs |-> DictSet(ev.CIDs, Head(lines).ts, Head(lines).cid),
                    CIDflags |-> DictSet(ev.CIDflags, Head(lines).ts, "0")],
                   Tail(lines))

\* getLogRecsWithCID: the new window; its candidates are the unreported keys
getLogRecsWithCID(ev, lines) == doPruning(ReadLines(ev, lines))

candidateCIDs(ev) == {k \in DOMAIN ev.CIDs : ev.CIDflags[k] = "0"}

flagAsReportedCID(ev, tskey) ==
    [ev EXCEPT !.CIDflags = DictSet(ev.CIDflags, tskey, "1")]

RECURSIVE FlagAll(_, _)
FlagAll(ev, keys) ==
    IF keys = {} THEN ev
    ELSE LET k == Min(keys) IN FlagAll(flagAsReportedCID(ev, k), keys \ {k})

getRecentCIDs(ev, t, isReptd) ==
    LET flag == IF isReptd THEN "1" ELSE "0"
    IN  {k \in DOMAIN ev.CIDs :
            Abs(t - k) <= RecentSecondsEVL4 /\ ev.CIDflags[k] = flag}

\* ------------------------------------------------------- TelnetEVL4

KeepLast(s, n) == IF Len(s) > n THEN SubSeq(s, Len(s) - n + 1, Len(s)) ELSE s

\* pruneAll: every history keeps its MAX_HISTORY most recent keys
pruneAll(rm) == [key1 \in DOMAIN rm |-> KeepLast(rm[key1], TEL_MAX_HISTORY)]

\* the histories of recentMsgs that the model keeps
NoMsgs == [msg00 |-> <<>>, msg03 |-> <<>>, rsp00 |-> <<>>, req00 |-> <<>>,
           req03 |-> <<>>]

Frames ==
    {[type |-> "%00", cid |-> ""], [type |-> "none", cid |-> ""]}
      \cup {[type |-> "%03", cid |-> c] : c \in Codes}

\* getNextMessage: one frame read (or a timeout, an unknown or failed read:
\* "none"), stored under the time of the read with flag '1', then pruneAll
getNextMessage(rm, frame, t) ==
    pruneAll(
        CASE frame.type = "%00" ->
                [rm EXCEPT !.msg00 = Append(@, [flag |-> "1"])]
          [] frame.type = "%03" ->
                [rm EXCEPT !.msg03 =
                    Append(@, [ts |-> t, cid |-> frame.cid, flag |-> "1"])]
          [] frame.type = "^00" ->
                [rm EXCEPT !.rsp00 = Append(@, [ts |-> t])]
          [] OTHER -> rm)

\* ------------------------------------------------------------ DPM.py

\* TPI: the newest entry of each history goes from '1' to '0'; a new CID
\* gives a message unless the previous CID is equal and processed.  The
\* message reads msg00txt[keys00[0]]: an IndexError on an empty history.
TPI(rm) ==
    LET n0 == Len(rm.msg00)
        n3 == Len(rm.msg03)
        m00 == IF n0 > 0 /\ rm.msg00[n0].flag = "1"
               THEN [rm.msg00 EXCEPT ![n0].flag = "0"] ELSE rm.msg00
        isNew == n3 > 0 /\ rm.msg03[n3].flag = "1"
        m03 == IF isNew THEN [rm.msg03 EXCEPT ![n3].flag = "0"] ELSE rm.msg03
        dup == n3 > 1 /\ rm.msg03[n3].cid = rm.msg03[n3 - 1].cid
                      /\ rm.msg03[n3 - 1].flag = "0"
        build == isNew /\ ~dup
    IN  [rm |-> [rm EXCEPT !.msg00 = m00, !.msg03 = m03],
         raised |-> build /\ n0 = 0,
         theMsg |-> IF build /\ n0 > 0 THEN <<rm.msg03[n3].cid>> ELSE <<>>]

\* checkSyslog comparing with every entry of the contact-id history
checkSyslog_anyEntry(ev, msg03txt, t, isReptd) ==
    LET recentCIDs == getRecentCIDs(ev, t, isReptd)
        hits == {k \in recentCIDs :
                    \E i \in 1..Len(msg03txt) :
                        /\ msg03txt[i].cid = ev.CIDs[k]
                        /\ Abs(msg03txt[i].ts - k) <= AdjacentSecondsEVL4}
    IN  [isMatched |-> hits # {},
         ev |-> IF hits # {} /\ ~isReptd
                THEN flagAsReportedCID(ev, Max(hits)) ELSE ev]

\* checkSyslog: the most recent TPI CID against the recent log entries of
\* the selected mode
checkSyslog(ev, msg03txt, t, isReptd) ==
    LET recentCIDs == getRecentCIDs(ev, t, isReptd)
        n == Len(msg03txt)
        hits == {k \in recentCIDs :
                    /\ n > 0
                    /\ msg03txt[n].cid = ev.CIDs[k]
                    /\ Abs(msg03txt[n].ts - k) <= AdjacentSecondsEVL4}
    IN  [isMatched |-> hits # {},
         ev |-> IF hits # {} /\ ~isReptd
                THEN flagAsReportedCID(ev, Max(hits)) ELSE ev]

\* scanSyslog with the matched candidates left unreported
scanSyslog_keepFlags(ev0, lines, msg03txt, t) ==
    LET ev1 == getLogRecsWithCID(ev0, lines)
        logscan == candidateCIDs(ev1)
        checkLogScan == {k \in logscan : Abs(t - k) <= RecentSecondsEVL4}
        isMatched(k) ==
            \E i \in 1..Len(msg03txt) :
                /\ msg03txt[i].cid = ev1.CIDs[k]
                /\ Abs(msg03txt[i].ts - k) <= AdjacentSecondsEVL4
        matched == {k \in checkLogScan : isMatched(k)}
        finalCheckLS == checkLogScan \ matched
    IN  IF finalCheckLS # {}
        THEN [ev |-> flagAsReportedCID(ev1, Min(finalCheckLS)),
              ret |-> <<[key |-> Min(finalCheckLS),
                         cid |-> ev1.CIDs[Min(finalCheckLS)]]>>]
        ELSE [ev |-> ev1, ret |-> <<>>]

\* scanSyslog: scan the log, flag the recent candidates a TPI CID matches,
\* flag and return the oldest unmatched one
scanSyslog(ev0, lines, msg03txt, t) ==
    LET ev1 == getLogRecsWithCID(ev0, lines)
        logscan == candidateCIDs(ev1)
        checkLogScan == {k \in logscan : Abs(t - k) <= RecentSecondsEVL4}
        isMatched(k) ==
            \E i \in 1..Len(msg03txt) :
                /\ msg03txt[i].cid = ev1.CIDs[k]
                /\ Abs(msg03txt[i].ts - k) <= AdjacentSecondsEVL4
        matched == {k \in checkLogScan : isMatched(k)}
        finalCheckLS == checkLogScan \ matched
        ev2 == FlagAll(ev1, matched)
    IN  IF finalCheckLS # {}
        THEN [ev |-> flagAsReportedCID(ev2, Min(finalCheckLS)),
              ret |-> <<[key |-> Min(finalCheckLS),
                         cid |-> ev1.CIDs[Min(finalCheckLS)]]>>]
        ELSE [ev |-> ev2, ret |-> <<>>]

\* ----------------------------------------------------------- MyModem

Alerts == {"ALERT-A", "ALERT-B"}
Phones == {"9990001212", "9990003434"}

isDuplicate_strict(hist, message, recipient, t) ==
    \E i \in 1..Len(hist) :
        /\ hist[i].alert = message
        /\ hist[i].phone = recipient
        /\ Abs(t - hist[i].ts) < RecentSecondsSMS

\* isDuplicate: some history entry with this text and recipient is at most
\* RECENT_SECS old
isDuplicate(hist, message, recipient, t) ==
    \E i \in 1..Len(hist) :
        /\ hist[i].alert = message
        /\ hist[i].phone = recipient
        /\ Abs(t - hist[i].ts) <= RecentSecondsSMS

saveHistory_none(hist, message, recipient, t) == hist

\* saveHistory: the text and the recipient, under the time of the call
saveHistory(hist, message, recipient, t) ==
    Append(hist, [ts |-> t, alert |-> message, phone |-> recipient])

sendSMS_noRenew(hist, con, flag, message, recipient, t, io, d, re) ==
    IF isDuplicate(hist, message, recipient, t)
    THEN [rc |-> 8, hist |-> hist,
          wrote |-> FALSE, con |-> con, t |-> t, tx |-> 0]
    ELSE IF flag
         THEN IF con = "open" /\ io = "ok"
              THEN [rc |-> 0,
                    hist |-> saveHistory(hist, message, recipient, t + d),
                    wrote |-> TRUE, con |-> con, t |-> t + d, tx |-> 1]
              ELSE [rc |-> 16, hist |-> hist, wrote |-> con = "open",
                    con |-> re, t |-> t + d, tx |-> 1]
         ELSE [rc |-> 4, hist |-> hist, wrote |-> FALSE, con |-> con, t |-> t,
               tx |-> 0]

\* sendSMS called at time t.  io is what the serial exchange does ("ok": the
\* reply ends in OK; "fail": a write raises or the reply is not OK), d the
\* time it takes, re what doReconnect leaves in commscon after a failure.
\* tx counts the passes through the try block that transmits the message.
sendSMS(hist, con, flag, message, recipient, t, io, d, re) ==
    IF isDuplicate(hist, message, recipient, t)
    THEN [rc |-> 8, hist |-> saveHistory(hist, message, recipient, t),
          wrote |-> FALSE, con |-> con, t |-> t, tx |-> 0]
    ELSE IF flag
         THEN IF con = "open" /\ io = "ok"
              THEN [rc |-> 0,
                    hist |-> saveHistory(hist, message, recipient, t + d),
                    wrote |-> TRUE, con |-> con, t |-> t + d, tx |-> 1]
              ELSE [rc |-> 16, hist |-> hist, wrote |-> con = "open",
                    con |-> re, t |-> t + d, tx |-> 1]
         ELSE [rc |-> 4, hist |-> hist, wrote |-> FALSE, con |-> con, t |-> t,
               tx |-> 0]

ModemInit ==
    /\ mnow = 0
    /\ commscon = "open"
    /\ sendFlag \in BOOLEAN
    /\ SMS_history = <<>>
    /\ prevCall = <<>>
    /\ lastCall = <<>>
    /\ ncalls = 0

MdmTick ==
    /\ mnow < MaxMdmTime
    /\ mnow' = mnow + 1
    /\ UNCHANGED <<commscon, sendFlag, SMS_history, prevCall, lastCall, ncalls>>
    /\ UNCHANGED notModem

SendSMS(message, recipient, io, d, re) ==
    /\ ncalls < MaxCalls
    /\ mnow + d <= MaxMdmTime
    /\ LET r == sendSMS(SMS_history, commscon, sendFlag, message, recipient,
                        mnow, io, d, re)
       IN  /\ SMS_history' = r.hist
           /\ commscon' = r.con
           /\ mnow' = r.t
           /\ prevCall' = lastCall
           /\ lastCall' = <<[alert |-> message, phone |-> recipient,
                             t |-> mnow, rc |-> r.rc, wrote |-> r.wrote,
                             tx |-> r.tx]>>
    /\ ncalls' = ncalls + 1
    /\ UNCHANGED sendFlag
    /\ UNCHANGED notModem

ModemNext ==
    \/ MdmTick
    \/ \E message \in Alerts, recipient \in Phones, io \in {"ok", "fail"},
          d \in 0..1, re \in {"open", "None"} :
            SendSMS(message, recipient, io, d, re)

\* ------------------------------------------------- SMS budget (DPM.py)

\* The dates the clock takes, in order: around renewal day 15 and 31, over
\* a year's end and a month without a 31st.
Days == << [y |-> 2024, m |-> 12, d |-> 11], [y |-> 2024, m |-> 12, d |-> 14],
          [y |-> 2024, m |-> 12, d |-> 15], [y |-> 2024, m |-> 12, d |-> 16],
          [y |-> 2024, m |-> 12, d |-> 31], [y |-> 2025, m |-> 1, d |-> 3],
          [y |-> 2025, m |-> 1, d |-> 15], [y |-> 2025, m |-> 1, d |-> 31],
          [y |-> 2025, m |-> 2, d |-> 3], [y |-> 2025, m |-> 2, d |-> 15],
          [y |-> 2025, m |-> 2, d |-> 16] >>

RenewalDays == {15, 31}
Rosters == {"red", "yellow", "reboot", "inbound"}
Categories == {"red", "yellow", "reboot"}

\* the proleptic Gregorian calendar of datetime
isLeap(y) == y % 4 = 0 /\ (y % 100 # 0 \/ y % 400 = 0)

daysInMonth(y, m) ==
    IF m = 2 THEN (IF isLeap(y) THEN 29 ELSE 28)
    ELSE IF m \in {4, 6, 9, 11} THEN 30 ELSE 31

daysBeforeYear(y) ==
    (y - 1) * 365 + (y - 1) \div 4 - (y - 1) \div 100 + (y - 1) \div 400

RECURSIVE daysBeforeMonth(_, _)
daysBeforeMonth(y, m) ==
    IF m = 1 THEN 0 ELSE daysBeforeMonth(y, m - 1) + daysInMonth(y, m - 1)

toordinal(dt) == daysBeforeYear(dt.y) + daysBeforeMonth(dt.y, dt.m) + dt.d

\* strptime raises ValueError for a day the month does not have
strptimeOK(dt) == dt.m \in 1..12 /\ dt.d \in 1..daysInMonth(dt.y, dt.m)

deltaDays_dates(a, b) == toordinal(a.date) - toordinal(b.date)

\* (a - b).days of two datetimes given as [date, tod]: the floor of the
\* difference in days
deltaDays(a, b) ==
    toordinal(a.date) - toordinal(b.date)
        + (IF a.tod >= b.tod THEN 0 ELSE -1)

\* round(num / den), Python 3: to the nearest integer, a half to the even one
round(num, den) ==
    LET n == IF den < 0 THEN -num ELSE num
        dd == IF den < 0 THEN -den ELSE den
        q == n \div dd
        r == n % dd
    IN  IF 2 * r < dd THEN q
        ELSE IF 2 * r > dd THEN q + 1
        ELSE IF q % 2 = 0 THEN q ELSE q + 1

phoneSum(pc) == pc["red"] + pc["yellow"] + pc["reboot"] + pc["inbound"]

resetSMSmetrics == [count |-> 0, latest |-> <<>>]

updateSMSmetrics(metrics, sent, sentdate) ==
    [count |-> metrics.count + sent, latest |-> <<sentdate>>]

gate_redAlways(riskpc, sentSMS, psum, allowance) ==
    IF riskpc < 100 /\ 4 * sentSMS + psum <= 4 * allowance
    THEN <<TRUE, TRUE, TRUE>>
    ELSE IF riskpc >= 100
         THEN <<TRUE, FALSE, FALSE>>
         ELSE <<FALSE, FALSE, FALSE>>

gate_le100(riskpc, sentSMS, psum, allowance) ==
    IF riskpc <= 100 /\ 4 * sentSMS + psum <= 4 * allowance
    THEN <<TRUE, TRUE, TRUE>>
    ELSE IF riskpc > 100 /\ 4 * sentSMS + psum <= 4 * allowance
         THEN <<TRUE, FALSE, FALSE>>
         ELSE <<FALSE, FALSE, FALSE>>

\* the gate of optimizeSMS; avgphonect is psum / 4, so that
\* sentSMS + avgphonect <= SMS_allowance is 4 * sentSMS + psum <= 4 * allowance
gate(riskpc, sentSMS, psum, allowance) ==
    IF riskpc < 100 /\ 4 * sentSMS + psum <= 4 * allowance
    THEN <<TRUE, TRUE, TRUE>>
    ELSE IF riskpc >= 100 /\ 4 * sentSMS + psum <= 4 * allowance
         THEN <<TRUE, FALSE, FALSE>>
         ELSE <<FALSE, FALSE, FALSE>>

noPhones_never(psum) == FALSE

\* if avgphonect == 0 : return [False, False, False]
noPhones(psum) == psum = 0

\* optimizeSMS called on date today, with renewal day rd.
\* raised: the strptime of the next renewal date raised ValueError, after the
\* renewal check was made; then there is no return value.  With no phone
\* in any roster the call returns before the risk is computed.
optimizeSMS(rd, allowance, pc, metrics, today) ==
    LET i_days == today.d
        recentRenewalDate == [date |-> [today EXCEPT !.d = rd], tod |-> 0]
        SMSLastSentDate == IF metrics.latest = <<>> THEN recentRenewalDate
                           ELSE metrics.latest[1]
        diff == deltaDays(recentRenewalDate, SMSLastSentDate)
        after == IF i_days >= rd /\ diff >= 0 THEN resetSMSmetrics
                 ELSE metrics
        sentSMS == after.count
        dt2 == IF i_days > rd
               THEN IF today.m = 12 THEN [y |-> today.y + 1, m |-> 1, d |-> rd]
                    ELSE [y |-> today.y, m |-> today.m + 1, d |-> rd]
               ELSE [y |-> today.y, m |-> today.m, d |-> rd]
        days0 == Abs(toordinal(dt2) - toordinal(today))
        daysToGo == IF days0 = 0 THEN 30 ELSE days0
        psum == phoneSum(pc)
        divisor == IF allowance - sentSMS = 0 THEN 1 ELSE allowance - sentSMS
        riskpc == round(25 * psum * daysToGo, divisor)
    IN  IF ~strptimeOK(dt2)
        THEN [raised |-> TRUE, before |-> metrics, after |-> after,
              daysToGo |-> 0, riskpc |-> 0,
              auth |-> <<FALSE, FALSE, FALSE>>]
        ELSE [raised |-> FALSE, before |-> metrics, after |-> after,
              daysToGo |-> daysToGo,
              riskpc |-> IF noPhones(psum) THEN 0 ELSE riskpc,
              auth |-> IF noPhones(psum) THEN <<FALSE, FALSE, FALSE>>
                       ELSE gate(riskpc, sentSMS, psum, allowance)]

catIndex(cat) ==
    CASE cat = "red" -> 1 [] cat = "yellow" -> 2 [] cat = "reboot" -> 3

metrics == [count |-> SMS_Count, latest |-> SMS_LatestDate]

\* the dates the gate is tried on: 4 days and 1 day before renewal day 15,
\* the day after it, and 3 February
GateDays == {1, 2, 4, 9}

GateInit ==
    /\ dayIdx \in GateDays
    /\ tod = 1
    /\ RenewalDay \in RenewalDays
    /\ SMS_Allowance \in 0..MaxAllowance
    /\ phoneCounts \in [Rosters -> 0..MaxRoster]
    /\ \E c \in 0..MaxCount :
          /\ SMS_Count = c
          /\ SMS_LatestDate = IF c = 0 THEN <<>>
                              ELSE <<[date |-> Days[dayIdx], tod |-> 1]>>
    /\ resultList = <<>>
    /\ sendCalls = 0

BudgetInit ==
    /\ dayIdx = 1
    /\ tod \in {0, 1}
    /\ RenewalDay \in RenewalDays
    /\ SMS_Allowance = MaxAllowance
    /\ phoneCounts = [r \in Rosters |-> 1]
    /\ SMS_Count = 0
    /\ SMS_LatestDate = <<>>
    /\ resultList = <<>>
    /\ sendCalls = 0

GateIdle ==
    /\ dayIdx = 1 /\ tod = 1 /\ RenewalDay = 15 /\ SMS_Allowance = 0
    /\ phoneCounts = [r \in Rosters |-> 0]
    /\ SMS_Count = 0 /\ SMS_LatestDate = <<>>
    /\ resultList = <<>> /\ sendCalls = 0

\* callCellPhones for a message of category cat; ok of its sendSMS calls
\* return 0 (each followed by updateMetrics(cnf1, 1)), the others 4, 8 or 16
CallCellPhones(cat, ok) ==
    LET r == optimizeSMS(RenewalDay, SMS_Allowance, phoneCounts, metrics,
                         Days[dayIdx])
        n == IF ~r.raised /\ r.auth[catIndex(cat)] THEN phoneCounts[cat] ELSE 0
        sent == IF ok = 0 THEN r.after
                ELSE updateSMSmetrics(r.after, ok,
                                      [date |-> Days[dayIdx], tod |-> tod])
    IN  /\ ok <= n
        /\ r.after.count + ok <= MaxCount
        /\ SMS_Count' = sent.count
        /\ SMS_LatestDate' = sent.latest
        /\ resultList' = <<[cat |-> cat, opt |-> r]>>
        /\ sendCalls' = n
        /\ UNCHANGED <<dayIdx, tod, RenewalDay, SMS_Allowance, phoneCounts>>
        /\ UNCHANGED notGate

\* doInboundSMS: rlen unread messages, of which replies are STATUS requests
\* from a valid phone whose reply sendSMS returns 0
DoInboundSMS(rlen, replies) ==
    /\ replies <= rlen
    /\ SMS_Count + rlen + replies <= MaxCount
    /\ SMS_Count' = SMS_Count + rlen + replies
    /\ SMS_LatestDate' = <<[date |-> Days[dayIdx], tod |-> tod]>>
    /\ resultList' = <<>>
    /\ sendCalls' = 0
    /\ UNCHANGED <<dayIdx, tod, RenewalDay, SMS_Allowance, phoneCounts>>
    /\ UNCHANGED notGate

\* midnight of the next date passes
NextDay ==
    /\ dayIdx < Len(Days)
    /\ dayIdx' = dayIdx + 1
    /\ tod' = 0
    /\ resultList' = <<>>
    /\ sendCalls' = 0
    /\ UNCHANGED <<RenewalDay, SMS_Allowance, phoneCounts, SMS_Count,
                   SMS_LatestDate>>
    /\ UNCHANGED notGate

\* the first second of the day is over
LaterToday ==
    /\ tod = 0
    /\ tod' = 1
    /\ resultList' = <<>>
    /\ sendCalls' = 0
    /\ UNCHANGED <<dayIdx, RenewalDay, SMS_Allowance, phoneCounts, SMS_Count,
                   SMS_LatestDate>>
    /\ UNCHANGED notGate

GateNext ==
    \E cat \in Categories, ok \in 0..MaxRoster : CallCellPhones(cat, ok)

BudgetNext ==
    \/ NextDay
    \/ LaterToday
    \/ \E cat \in Categories, ok \in 0..MaxRoster : CallCellPhones(cat, ok)
    \/ \E rlen \in 1..2, replies \in 0..1 : DoInboundSMS(rlen, replies)

\* ------------------------------------------------------------ actions

LoopInit ==
    /\ now = 0
    /\ recentMsgs = NoMsgs
    /\ CIDevents = [CIDs |-> EmptyDict, CIDflags |-> EmptyDict]
    /\ logfile = <<>>
    /\ crashed = FALSE
    /\ scanRet = <<>>
    /\ evFrame = {}
    /\ evLog = {}
    /\ evLogScanned = FALSE
    /\ alertsE = 0

\* time passes
Tick ==
    /\ now < MaxTime
    /\ now' = now + 1
    /\ scanRet' = <<>>
    /\ UNCHANGED <<recentMsgs, CIDevents, logfile, crashed,
                   evFrame, evLog, evLogScanned, alertsE>>
    /\ UNCHANGED notLoop

\* the EVL4's syslog client appends a 'CID Event' line, stamped now
WriteLog(c) ==
    /\ Len(logfile) < MaxPending
    /\ c = CodeE => evLog = {}
    /\ logfile' = Append(logfile, [ts |-> now, cid |-> c])
    /\ evLog' = IF c = CodeE THEN {now} ELSE evLog
    /\ scanRet' = <<>>
    /\ UNCHANGED <<now, recentMsgs, CIDevents, crashed,
                   evFrame, evLogScanned, alertsE>>
    /\ UNCHANGED notLoop

\* one iteration of main()'s while loop, syslog scanning enabled
MainLoop(frame) ==
    /\ ~crashed
    /\ (frame.type = "%03" /\ frame.cid = CodeE) => evFrame = {}
    /\ LET rm1 == getNextMessage(recentMsgs, frame, now)
           tpi == TPI(rm1)
           fullMsg == tpi.theMsg
           chk == checkSyslog(CIDevents, tpi.rm.msg03, now, TRUE)
           tpiAlert == fullMsg # <<>> /\ ~chk.isMatched
           scan == scanSyslog(chk.ev, logfile, tpi.rm.msg03, now)
           isE == frame.type = "%03" /\ frame.cid = CodeE
       IN  /\ recentMsgs' = tpi.rm
           /\ evFrame' = IF isE THEN {now} ELSE evFrame
           /\ IF tpi.raised
              THEN /\ crashed' = TRUE
                   /\ scanRet' = <<>>
                   /\ UNCHANGED <<CIDevents, logfile, evLogScanned, alertsE>>
              ELSE /\ crashed' = FALSE
                   /\ CIDevents' = scan.ev
                   /\ logfile' = <<>>
                   /\ scanRet' = scan.ret
                   /\ evLogScanned' =
                        (evLogScanned
                           \/ \E i \in 1..Len(logfile) : logfile[i].cid = CodeE)
                   /\ alertsE' = alertsE
                        + (IF tpiAlert /\ fullMsg[1] = CodeE THEN 1 ELSE 0)
                        + (IF scan.ret # <<>> /\ scan.ret[1].cid = CodeE
                           THEN 1 ELSE 0)
    /\ UNCHANGED <<now, evLog>>
    /\ UNCHANGED notLoop

LoopNext ==
    \/ Tick
    \/ \E c \in Codes : WriteLog(c)
    \/ \E frame \in Frames : MainLoop(frame)

ModemIdle ==
    /\ mnow = 0 /\ commscon = "open" /\ sendFlag = TRUE /\ SMS_history = <<>>
    /\ prevCall = <<>> /\ lastCall = <<>> /\ ncalls = 0

EscIdle == mdmStep = <<>> /\ provisioned = TRUE /\ telStep = <<>>
AlertsIdle == alertIn = <<>> /\ alertOut = <<>>
DecodeIdle == cidIn = <<>> /\ cidOut = <<>>
ZonesIdle == zoneIn = <<>> /\ zoneOut = <<>>
KeypadIdle == keypadIn = <<>> /\ keypadOut = <<>>
FramesIdle == ZonesIdle /\ KeypadIdle
StatusIdle == msg00txt = <<>> /\ gcs = <<>>
BootIdle == bootIn = <<>> /\ bootOut = <<>>
InboundIdle == smsIn = <<>> /\ smsOut = <<>>
OrderIdle == arrivals = 0 /\ examined = <<>>
CorrIdle == scanOut = <<>> /\ chkOut = <<>>
ServiceIdle ==
    StatusIdle /\ BootIdle /\ InboundIdle /\ OrderIdle /\ CorrIdle
RestIdle ==
    EscIdle /\ AlertsIdle /\ DecodeIdle /\ FramesIdle /\ ServiceIdle

InitLoop == LoopInit /\ ModemIdle /\ GateIdle /\ RestIdle /\ tn = "open"

SpecLoop == InitLoop /\ [][LoopNext]_vars

InitModem == ModemInit /\ LoopInit /\ GateIdle /\ RestIdle /\ tn = "open"

SpecModem == InitModem /\ [][ModemNext]_vars

InitGate == GateInit /\ LoopInit /\ ModemIdle /\ RestIdle /\ tn = "open"

SpecGate == InitGate /\ [][GateNext]_vars

InitBudget ==
    BudgetInit /\ LoopInit /\ ModemIdle /\ RestIdle /\ tn = "open"

SpecBudget == InitBudget /\ [][BudgetNext]_vars

\* one billing cycle: 11 December with renewal day 15, a count that starts
\* within the allowance, rosters of up to MaxCycleRoster phones each
MaxCycleRoster == 2

CycleInit ==
    /\ dayIdx = 1
    /\ tod = 1
    /\ RenewalDay = 15
    /\ SMS_Allowance \in 0..MaxAllowance
    /\ phoneCounts \in [Rosters -> 0..MaxCycleRoster]
    /\ \E c \in 0..MaxCount :
          /\ c <= SMS_Allowance
          /\ SMS_Count = c
          /\ SMS_LatestDate = IF c = 0 THEN <<>>
                              ELSE <<[date |-> Days[dayIdx], tod |-> 1]>>
    /\ resultList = <<>>
    /\ sendCalls = 0

CycleNext ==
    \/ \E cat \in Categories, ok \in 0..MaxCycleRoster : CallCellPhones(cat, ok)
    \/ \E rlen \in 1..2, replies \in 0..1 : DoInboundSMS(rlen, replies)

InitCycle == CycleInit /\ LoopInit /\ ModemIdle /\ RestIdle /\ tn = "open"

SpecCycle == InitCycle /\ [][CycleNext]_vars

\* ------------------------------------------- the SMS history (MyModem)
SMS_MAX_HISTORY == 16
MaxSurplus == 1
MaxPhones == 2

\* MyModem.doPruning: the MAX_HISTORY greatest keys stay
mdmPruning(hist) == KeepLast(hist, SMS_MAX_HISTORY)

\* the body of callCellPhones' loop for one phone: sendSMS, and one more
\* sendSMS when the first returned 16
sendToPhone(hist, con, flag, message, ph, t, io1, io2, re) ==
    LET r1 == sendSMS(hist, con, flag, message, ph, t, io1, 0, re)
    IN  IF r1.rc = 16
        THEN sendSMS(r1.hist, r1.con, flag, message, ph, r1.t, io2, 0, re)
        ELSE r1

\* callCellPhones' loop over the phones k..Len(phones) of the roster
RECURSIVE sendToPhones(_, _, _, _, _, _, _, _, _, _)
sendToPhones(hist, con, flag, message, phones, k, t, io1, io2, re) ==
    IF k > Len(phones)
    THEN [hist |-> hist, con |-> con]
    ELSE LET r == sendToPhone(hist, con, flag, message, phones[k], t, io1,
                              io2, re)
         IN  sendToPhones(r.hist, r.con, flag, message, phones, k + 1, t, io1,
                          io2, re)

\* the text of an alert, the text of a status reply, the phone they go to
AlertText == "ALERT-A"
HistPhone == "9990001212"
HistRosters == {[i \in 1..n |-> HistPhone] : n \in 1..MaxPhones}

\* callCellPhones with the alert authorised by optimizeSMS: a sendSMS (and a
\* retry) for each phone of the roster, then doPruning.  The first
\* transmission to each phone does io1, the retry io2.
AlertSMS(phones, io1, io2, re) ==
    /\ LET r == sendToPhones(SMS_history, commscon, sendFlag, AlertText,
                             phones, 1, mnow, io1, io2, re)
       IN  /\ SMS_history' = mdmPruning(r.hist)
           /\ commscon' = r.con
    /\ UNCHANGED <<mnow, sendFlag, prevCall, lastCall, ncalls>>
    /\ UNCHANGED notModem

\* doInboundSMS with one STATUS request of a valid phone: when the SendSMS
\* flag is set, one sendSMS with the status text, and no doPruning
StatusSMS(io, re) ==
    /\ Len(SMS_history) < SMS_MAX_HISTORY + MaxSurplus
    /\ sendFlag
    /\ LET r == sendSMS(SMS_history, commscon, sendFlag, AlertText, HistPhone,
                        mnow, io, 0, re)
       IN  /\ SMS_history' = r.hist
           /\ commscon' = r.con
    /\ UNCHANGED <<mnow, sendFlag, prevCall, lastCall, ncalls>>
    /\ UNCHANGED notModem

HistoryNext ==
    \/ MdmTick
    \/ \E phones \in HistRosters, io1 \in {"ok", "fail"},
          io2 \in {"ok", "fail"}, re \in {"open", "None"} :
            AlertSMS(phones, io1, io2, re)
    \/ \E io \in {"ok", "fail"}, re \in {"open", "None"} : StatusSMS(io, re)

InitHistory == ModemInit /\ LoopInit /\ GateIdle /\ RestIdle /\ tn = "open"

SpecHistory == InitHistory /\ [][HistoryNext]_vars

\* ----------------------------------------- TelnetEVL4 and ScanEVL4Log

EngFrames ==
    {[type |-> "%00", cid |-> ""], [type |-> "^00", cid |-> ""],
     [type |-> "%03", cid |-> CodeX], [type |-> "none", cid |-> ""]}

\* the timestamped 'CID Event' lines one scan of the log file can find
LogLines ==
    {<<[ts |-> t, cid |-> CodeX]>> : t \in 0..MaxTime}
      \cup {<<[ts |-> t, cid |-> CodeX], [ts |-> u, cid |-> CodeX]>> :
               t \in 0..MaxTime, u \in 0..MaxTime}

\* a read on the socket: with the connection open and no error the frame is
\* stored; otherwise the except branch calls doReconnect, which leaves the
\* connection as re.  pruneAll runs in both cases.
readMessage(rm, con, frame, io, re) ==
    IF con = "open" /\ io = "ok"
    THEN [rm |-> getNextMessage(rm, frame, now), con |-> con]
    ELSE [rm |-> pruneAll(rm), con |-> re]

\* a request written on the socket and recorded in history key1; after a
\* failed write and a successful doReconnect it is written and recorded
\* again.  No pruneAll.
doRequest(rm, con, key1, io, re) ==
    IF con = "open" /\ io = "ok"
    THEN [rm |-> [rm EXCEPT ![key1] = Append(@, [ts |-> now])], con |-> con]
    ELSE IF re = "open"
         THEN [rm |-> [rm EXCEPT ![key1] = Append(@, [ts |-> now])],
               con |-> re]
         ELSE [rm |-> rm, con |-> re]

EngineInit ==
    /\ LoopInit
    /\ tn \in {"open", "None"}

GetNextMessage(frame, io, re) ==
    LET r == readMessage(recentMsgs, tn, frame, io, re)
    IN  /\ recentMsgs' = r.rm
        /\ tn' = r.con
        /\ UNCHANGED CIDevents
        /\ UNCHANGED notEngine

DoPoll(io, re) ==
    LET r == doRequest(recentMsgs, tn, "req00", io, re)
    IN  /\ Len(recentMsgs.req00) < MaxReq
        /\ recentMsgs' = r.rm
        /\ tn' = r.con
        /\ UNCHANGED CIDevents
        /\ UNCHANGED notEngine

DoKeystrokesToPartition(io, re) ==
    LET r == doRequest(recentMsgs, tn, "req03", io, re)
    IN  /\ Len(recentMsgs.req03) < MaxReq
        /\ recentMsgs' = r.rm
        /\ tn' = r.con
        /\ UNCHANGED CIDevents
        /\ UNCHANGED notEngine

\* doInvalidRequest records nothing
DoInvalidRequest(io, re) ==
    /\ tn' = IF tn = "open" /\ io = "ok" THEN tn ELSE re
    /\ UNCHANGED <<recentMsgs, CIDevents>>
    /\ UNCHANGED notEngine

\* getCurrentStatus: one turn of its loop, two reads
GetCurrentStatus(f1, f2, io1, io2, re) ==
    LET r1 == readMessage(recentMsgs, tn, f1, io1, re)
        r2 == readMessage(r1.rm, r1.con, f2, io2, re)
    IN  /\ recentMsgs' = r2.rm
        /\ tn' = r2.con
        /\ UNCHANGED CIDevents
        /\ UNCHANGED notEngine

GetLogRecsWithCID(lines) ==
    /\ CIDevents' = getLogRecsWithCID(CIDevents, lines)
    /\ UNCHANGED <<recentMsgs, tn>>
    /\ UNCHANGED notEngine

EngineNext ==
    \/ \E frame \in EngFrames, io \in {"ok", "fail"}, re \in {"open", "None"} :
          GetNextMessage(frame, io, re)
    \/ \E io \in {"ok", "fail"}, re \in {"open", "None"} : DoPoll(io, re)
    \/ \E io \in {"ok", "fail"}, re \in {"open", "None"} :
          DoKeystrokesToPartition(io, re)
    \/ \E io \in {"ok", "fail"}, re \in {"open", "None"} :
          DoInvalidRequest(io, re)
    \/ \E f1 \in EngFrames, f2 \in EngFrames, io1 \in {"ok", "fail"},
          io2 \in {"ok", "fail"}, re \in {"open", "None"} :
            GetCurrentStatus(f1, f2, io1, io2, re)
    \/ \E lines \in LogLines : GetLogRecsWithCID(lines)

InitEngine == EngineInit /\ ModemIdle /\ GateIdle /\ RestIdle

SpecEngine == InitEngine /\ [][EngineNext]_vars

\* ------------------------------------- MyModem: reconnect and reboot
ModemRetries == 2

\* what the attempts of one doReconnect to open the serial device can do
MdmOutcomes == [1..ModemRetries -> {"ok", "fail"}]

\* doReconnect's for loop from attempt x on, tries being the outcomes of the
\* attempts made so far: an attempt that returns a serial object breaks
RECURSIVE mdmOpen(_, _, _)
mdmOpen(outs, x, tries) ==
    IF x > ModemRetries
    THEN [con |-> "None", tries |-> tries]
    ELSE IF outs[x] = "ok"
         THEN [con |-> "open", tries |-> Append(tries, "ok")]
         ELSE mdmOpen(outs, x + 1, Append(tries, "fail"))

mdmReconnect_rebootAlways(outs, boot) ==
    LET r == mdmOpen(outs, 1, <<>>)
    IN  [con |-> r.con, tries |-> r.tries, reboots |-> 1,
         booted |-> boot = "ok"]

\* doReconnect: commscon is closed, the attempts are made, and doReboot runs
\* when commscon is still None.  doReboot sends AT#REBOOT on the boot device
\* (boot: "ok", or "fail" when the device cannot be opened or written) and
\* leaves commscon None; neither function runs the AT set-up sequence.
mdmReconnect(outs, boot) ==
    LET r == mdmOpen(outs, 1, <<>>)
    IN  IF r.con = "None"
        THEN [con |-> "None", tries |-> r.tries, reboots |-> 1,
              booted |-> boot = "ok"]
        ELSE [con |-> "open", tries |-> r.tries, reboots |-> 0,
              booted |-> FALSE]

\* doStayAwake and getUnreadSMS: one AT exchange; a write that raises
\* (commscon None included) or a reply that is not OK runs doReconnect
mdmExchange(con, io, outs, boot) ==
    LET e == mdmReconnect(outs, boot)
    IN  IF con = "open" /\ io = "ok"
        THEN [con |-> con, failed |-> FALSE, esc |-> <<>>]
        ELSE [con |-> e.con, failed |-> TRUE, esc |-> <<e>>]

\* the modem has (re)booted in one of the doReconnect runs of a step
Booted(esc) == \E k \in DOMAIN esc : esc[k].booted

DoStayAwake(io, outs, boot) ==
    LET r == mdmExchange(commscon, io, outs, boot)
    IN  /\ commscon' = r.con
        /\ mdmStep' = <<[op |-> "doStayAwake", failed |-> r.failed,
                         esc |-> r.esc]>>
        /\ provisioned' = (provisioned /\ ~Booted(r.esc))
        /\ UNCHANGED <<mnow, sendFlag, SMS_history, prevCall, lastCall,
                       ncalls>>
        /\ UNCHANGED notEscalate

GetUnreadSMS(io, outs, boot) ==
    LET r == mdmExchange(commscon, io, outs, boot)
    IN  /\ commscon' = r.con
        /\ mdmStep' = <<[op |-> "getUnreadSMS", failed |-> r.failed,
                         esc |-> r.esc]>>
        /\ provisioned' = (provisioned /\ ~Booted(r.esc))
        /\ UNCHANGED <<mnow, sendFlag, SMS_history, prevCall, lastCall,
                       ncalls>>
        /\ UNCHANGED notEscalate

\* one sendSMS call, with the doReconnect run that a return code 16 comes
\* from
SendSMSOnce(message, recipient, io, outs, boot) ==
    LET e == mdmReconnect(outs, boot)
        r == sendSMS(SMS_history, commscon, sendFlag, message, recipient,
                     mnow, io, 0, e.con)
        esc == IF r.rc = 16 THEN <<e>> ELSE <<>>
    IN  /\ ncalls < MaxCalls
        /\ SMS_history' = r.hist
        /\ commscon' = r.con
        /\ prevCall' = lastCall
        /\ lastCall' = <<[alert |-> message, phone |-> recipient,
                          t |-> mnow, rc |-> r.rc, wrote |-> r.wrote,
                          tx |-> r.tx]>>
        /\ ncalls' = ncalls + 1
        /\ mdmStep' = <<[op |-> "sendSMS", failed |-> r.rc = 16,
                         esc |-> esc]>>
        /\ provisioned' = (provisioned /\ ~Booted(esc))
        /\ UNCHANGED <<mnow, sendFlag>>
        /\ UNCHANGED notEscalate

EscalateTick ==
    /\ mnow < MaxMdmTime
    /\ mnow' = mnow + 1
    /\ UNCHANGED <<commscon, sendFlag, SMS_history, prevCall, lastCall,
                   ncalls, mdmStep, provisioned>>
    /\ UNCHANGED notEscalate

EscalateNext ==
    \/ EscalateTick
    \/ \E io \in {"ok", "fail"}, outs \in MdmOutcomes,
          boot \in {"ok", "fail"} : DoStayAwake(io, outs, boot)
    \/ \E io \in {"ok", "fail"}, outs \in MdmOutcomes,
          boot \in {"ok", "fail"} : GetUnreadSMS(io, outs, boot)
    \/ \E io \in {"ok", "fail"}, outs \in MdmOutcomes,
          boot \in {"ok", "fail"} :
            SendSMSOnce(AlertText, HistPhone, io, outs, boot)

InitEscalate == ModemInit /\ LoopInit /\ GateIdle /\ RestIdle /\ tn = "open"

SpecEscalate == InitEscalate /\ [][EscalateNext]_vars

\* ------------------------------ TelnetEVL4: reconnect, reboot, raising
TelRetries == 2
RebootSettleSecs == 20

\* what the connect-and-login attempts of one doReconnect can do
TelOutcomes == [1..TelRetries -> {"ok", "fail"}]

\* doReconnect's for loop from attempt x on, tries being the outcomes of the
\* attempts made so far: an attempt whose login reply ends in OK breaks
RECURSIVE telLogin(_, _, _)
telLogin(outs, x, tries) ==
    IF x > TelRetries
    THEN [con |-> "None", tries |-> tries]
    ELSE IF outs[x] = "ok"
         THEN [con |-> "open", tries |-> Append(tries, "ok")]
         ELSE telLogin(outs, x + 1, Append(tries, "fail"))

\* doReconnect: the session is closed, the attempts are made, and doReboot
\* (the reboot request, then the settle delay) runs when tn is still None
telReconnect(outs) ==
    LET r == telLogin(outs, 1, <<>>)
    IN  IF r.con = "None"
        THEN [con |-> "None", tries |-> r.tries, reboots |-> 1,
              settle |-> RebootSettleSecs]
        ELSE [con |-> "open", tries |-> r.tries, reboots |-> 0, settle |-> 0]

\* frames whose payload is decoded by doType00, doType02 or doType03
Decoded == {"%00", "%02", "%03"}
SessFrames == EngFrames \cup {[type |-> "%02", cid |-> ""]}

\* the exception the try block of getNextMessage meets: tn is None, the read
\* fails, or the payload cannot be decoded ("none": no exception)
tryRead(con, frame, payload, io) ==
    IF con = "None" THEN "AttributeError"
    ELSE IF io = "fail" THEN "OSError"
    ELSE IF frame.type \in Decoded /\ payload = "bad" THEN "ValueError"
    ELSE "none"

telGetNextMessage_ioOnly(rm, con, frame, payload, io, outs) ==
    LET exc == tryRead(con, frame, payload, io)
        e == telReconnect(outs)
    IN  IF exc = "none"
        THEN [rm |-> getNextMessage(rm, frame, now), con |-> con,
              exc |-> exc, esc |-> <<>>, raised |-> FALSE]
        ELSE IF exc = "OSError"
        THEN [rm |-> pruneAll(rm), con |-> e.con, exc |-> exc, esc |-> <<e>>,
              raised |-> FALSE]
        ELSE [rm |-> rm, con |-> con, exc |-> exc, esc |-> <<>>,
              raised |-> TRUE]

\* getNextMessage: every exception of the try block is caught and handled by
\* doReconnect; pruneAll runs whatever happened.  A frame whose payload
\* cannot be decoded is stored in its raw history only, which the model does
\* not keep.
telGetNextMessage(rm, con, frame, payload, io, outs) ==
    LET exc == tryRead(con, frame, payload, io)
        e == telReconnect(outs)
    IN  IF exc = "none"
        THEN [rm |-> getNextMessage(rm, frame, now), con |-> con,
              exc |-> exc, esc |-> <<>>, raised |-> FALSE]
        ELSE [rm |-> pruneAll(rm), con |-> e.con, exc |-> exc, esc |-> <<e>>,
              raised |-> FALSE]

\* doPoll and its like: the write is tried; when it raises, doReconnect
\* runs and, with a session open again, the request is written once more
\* outside any try block and recorded when key1 is a history
telRequest(rm, con, key1, io1, io2, outs) ==
    LET exc == IF con = "None" THEN "AttributeError"
               ELSE IF io1 = "fail" THEN "OSError" ELSE "none"
        e == telReconnect(outs)
        rec == IF key1 \in DOMAIN rm
               THEN [rm EXCEPT ![key1] = Append(@, [ts |-> now])] ELSE rm
    IN  IF exc = "none"
        THEN [rm |-> rec, con |-> con, exc |-> exc, esc |-> <<>>,
              raised |-> FALSE]
        ELSE IF e.con = "None"
        THEN [rm |-> rm, con |-> e.con, exc |-> exc, esc |-> <<e>>,
              raised |-> FALSE]
        ELSE IF io2 = "ok"
        THEN [rm |-> rec, con |-> e.con, exc |-> exc, esc |-> <<e>>,
              raised |-> FALSE]
        ELSE [rm |-> rm, con |-> e.con, exc |-> exc, esc |-> <<e>>,
              raised |-> TRUE]

\* an exception that leaves an engine operation leaves main() too
TelRunning == \A i \in DOMAIN telStep : ~telStep[i].raised

TelGetNextMessage(frame, payload, io, outs) ==
    LET r == telGetNextMessage(recentMsgs, tn, frame, payload, io, outs)
    IN  /\ TelRunning
        /\ recentMsgs' = r.rm
        /\ tn' = r.con
        /\ telStep' = <<[op |-> "getNextMessage", exc |-> r.exc,
                         esc |-> r.esc, raised |-> r.raised]>>
        /\ UNCHANGED notSession

TelDoPoll(io1, io2, outs) ==
    LET r == telRequest(recentMsgs, tn, "req00", io1, io2, outs)
    IN  /\ TelRunning
        /\ Len(recentMsgs.req00) < MaxReq
        /\ recentMsgs' = r.rm
        /\ tn' = r.con
        /\ telStep' = <<[op |-> "doPoll", exc |-> r.exc, esc |-> r.esc,
                         raised |-> r.raised]>>
        /\ UNCHANGED notSession

TelDoInvalidRequest(io1, io2, outs) ==
    LET r == telRequest(recentMsgs, tn, "", io1, io2, outs)
    IN  /\ TelRunning
        /\ recentMsgs' = r.rm
        /\ tn' = r.con
        /\ telStep' = <<[op |-> "doInvalidRequest", exc |-> r.exc,
                         esc |-> r.esc, raised |-> r.raised]>>
        /\ UNCHANGED notSession

SessionNext ==
    \/ \E frame \in SessFrames, payload \in {"ok", "bad"},
          io \in {"ok", "fail"}, outs \in TelOutcomes :
            TelGetNextMessage(frame, payload, io, outs)
    \/ \E io1 \in {"ok", "fail"}, io2 \in {"ok", "fail"},
          outs \in TelOutcomes : TelDoPoll(io1, io2, outs)
    \/ \E io1 \in {"ok", "fail"}, io2 \in {"ok", "fail"},
          outs \in TelOutcomes : TelDoInvalidRequest(io1, io2, outs)

InitSession == EngineInit /\ ModemIdle /\ GateIdle /\ RestIdle

SpecSession == InitSession /\ [][SessionNext]_vars

\* --------------------------------------------- doAlerts (DPM.py)
\* Texts are sequences of characters.  The letters stand for any upper- and
\* lower-case letters, "!" is the separator that TPI puts between the keypad
\* text and the decoded CID.
MaxMsgLen == 3
Letters == {"a", "A", "b"}
Chars == Letters \cup {"!"}

\* str.lower
lowerChar(c) == IF c = "A" THEN "a" ELSE c
lower(str) == [i \in 1..Len(str) |-> lowerChar(str[i])]

\* tok in msg
IsIn(tok, msg) ==
    \E i \in 0..(Len(msg) - Len(tok)) : SubSeq(msg, i + 1, i + Len(tok)) = tok

\* msg.split('!')
RECURSIVE split(_)
split(msg) ==
    IF \E i \in 1..Len(msg) : msg[i] = "!"
    THEN LET i == Min({j \in 1..Len(msg) : msg[j] = "!"})
         IN  <<SubSeq(msg, 1, i - 1)>> \o split(SubSeq(msg, i + 1, Len(msg)))
    ELSE <<msg>>

checkNonAlert_keypad(tokens, msg) ==
    \E k \in DOMAIN tokens : IsIn(lower(tokens[k]), split(msg)[1])

\* checkNonAlert: the text after the separator, or the whole text, holds a
\* lower-cased NotTheseTokens token
checkNonAlert(tokens, msg) ==
    LET tmpmsg == split(msg)
        part == IF IsIn(<<"!">>, msg) THEN tmpmsg[2] ELSE tmpmsg[1]
    IN  \E k \in DOMAIN tokens : IsIn(lower(tokens[k]), part)

\* checkRedAlert: the text before the separator holds an UrgentTokens token
checkRedAlert(tokens, msg) ==
    \E k \in DOMAIN tokens : IsIn(tokens[k], split(msg)[1])

\* checkYellowAlert: the same with the ImportantTokens
checkYellowAlert(tokens, msg) ==
    \E k \in DOMAIN tokens : IsIn(tokens[k], split(msg)[1])

\* PingOne.isInternetAlive: one ping, and one more when it fails; pings are
\* the return codes of the ping commands
isInternetAlive(pings) == IF pings[1] # 0 THEN pings[2] = 0 ELSE TRUE

doAlerts_yellowAlways(in) ==
    LET msg == in.msg
        text == IF in.doLowerCase THEN lower(msg) ELSE msg
    IN  IF checkNonAlert(in.NotTheseTokens, lower(msg))
        THEN [class |-> "non", calls |-> <<>>, probes |-> 0]
        ELSE IF checkRedAlert(in.UrgentTokens, text)
        THEN [class |-> "red", probes |-> 0,
              calls |-> <<[msg |-> msg, redAlert |-> TRUE,
                           yellowAlert |-> FALSE, rebootAlert |-> FALSE]>>]
        ELSE IF checkYellowAlert(in.ImportantTokens, text)
        THEN [class |-> "yellow", probes |-> 1,
              calls |-> <<[msg |-> msg, redAlert |-> FALSE,
                           yellowAlert |-> TRUE, rebootAlert |-> FALSE]>>]
        ELSE [class |-> "none", calls |-> <<>>, probes |-> 0]

\* doAlerts: how the message is classified, the callCellPhones calls made
\* and the number of isInternetAlive calls
doAlerts(in) ==
    LET msg == in.msg
        text == IF in.doLowerCase THEN lower(msg) ELSE msg
    IN  IF checkNonAlert(in.NotTheseTokens, lower(msg))
        THEN [class |-> "non", calls |-> <<>>, probes |-> 0]
        ELSE IF checkRedAlert(in.UrgentTokens, text)
        THEN [class |-> "red", probes |-> 0,
              calls |-> <<[msg |-> msg, redAlert |-> TRUE,
                           yellowAlert |-> FALSE, rebootAlert |-> FALSE]>>]
        ELSE IF checkYellowAlert(in.ImportantTokens, text)
        THEN [class |-> "yellow", probes |-> 1,
              calls |-> IF isInternetAlive(in.pings)
                        THEN <<>>
                        ELSE <<[msg |-> msg, redAlert |-> FALSE,
                                yellowAlert |-> TRUE, rebootAlert |-> FALSE]>>]
        ELSE [class |-> "none", calls |-> <<>>, probes |-> 0]

\* the phones callCellPhones takes for an authorised alert
rosterOf(call) ==
    IF call.redAlert THEN "red"
    ELSE IF call.yellowAlert THEN "yellow"
    ELSE IF call.rebootAlert THEN "reboot" ELSE "none"

\* texts of at most n characters with at most one separator
Texts(n) ==
    UNION {{t \in [1..k -> Chars] :
               Cardinality({i \in 1..k : t[i] = "!"}) <= 1} : k \in 0..n}

\* a token list of the configuration: empty, or one token
TokenLists == {<<>>, <<<<"a">>>>, <<<<"A">>>>, <<<<"a", "b">>>>}

AlertInputs ==
    [msg : Texts(MaxMsgLen), NotTheseTokens : TokenLists,
     UrgentTokens : TokenLists, ImportantTokens : TokenLists,
     doLowerCase : BOOLEAN, pings : [1..2 -> {0, 1}]]

AlertsInit ==
    /\ alertIn \in AlertInputs
    /\ alertOut = <<>>

DoAlerts ==
    /\ alertOut = <<>>
    /\ alertOut' = <<doAlerts(alertIn)>>
    /\ UNCHANGED alertIn
    /\ UNCHANGED notAlerts

AlertsNext == DoAlerts

InitAlerts ==
    /\ AlertsInit /\ LoopInit /\ ModemIdle /\ GateIdle /\ EscIdle
    /\ DecodeIdle /\ FramesIdle /\ ServiceIdle /\ tn = "open"

SpecAlerts == InitAlerts /\ [][AlertsNext]_vars

\* one event seen on both channels (DPM.py main): the protocol channel gives
\* doAlerts the composite alert of TPI, keypad text ! decoded CID, matched as
\* it is; the log channel gives it the decoded CID alone, matched lower-cased
MaxPartLen == 1

PartTexts == UNION {[1..k -> Letters] : k \in 0..MaxPartLen}

ChannelInputs ==
    [keypad : PartTexts, desc : PartTexts, NotTheseTokens : TokenLists,
     UrgentTokens : TokenLists, ImportantTokens : TokenLists,
     pings : [1..2 -> {0, 1}]]

tpiAlert(in) ==
    [msg |-> in.keypad \o <<"!">> \o in.desc, doLowerCase |-> FALSE,
     NotTheseTokens |-> in.NotTheseTokens, UrgentTokens |-> in.UrgentTokens,
     ImportantTokens |-> in.ImportantTokens, pings |-> in.pings]

logAlert(in) ==
    [msg |-> in.desc, doLowerCase |-> TRUE,
     NotTheseTokens |-> in.NotTheseTokens, UrgentTokens |-> in.UrgentTokens,
     ImportantTokens |-> in.ImportantTokens, pings |-> in.pings]

ChannelsInit ==
    /\ alertIn \in ChannelInputs
    /\ alertOut = <<>>

DoAlertsTPI ==
    /\ alertOut = <<>>
    /\ alertOut' = <<[channel |-> "tpi", out |-> doAlerts(tpiAlert(alertIn)),
                      other |-> doAlerts(logAlert(alertIn))]>>
    /\ UNCHANGED alertIn
    /\ UNCHANGED notAlerts

DoAlertsSyslog ==
    /\ alertOut = <<>>
    /\ alertOut' = <<[channel |-> "log", out |-> doAlerts(logAlert(alertIn)),
                      other |-> doAlerts(tpiAlert(alertIn))]>>
    /\ UNCHANGED alertIn
    /\ UNCHANGED notAlerts

ChannelsNext == DoAlertsTPI \/ DoAlertsSyslog

InitChannels ==
    /\ ChannelsInit /\ LoopInit /\ ModemIdle /\ GateIdle /\ EscIdle
    /\ DecodeIdle /\ FramesIdle /\ ServiceIdle /\ tn = "open"

SpecChannels == InitChannels /\ [][ChannelsNext]_vars

\* ----------------------------------------------- DecodeCID (cid.py)
\* Texts are sequences of pieces: a digit of the code is a piece, a text of
\* the tables is a piece, "!" is a piece of its own.
Digits == {"0", "1", "2", "3", "4", "5", "6", "7", "8", "9"}

\* the rows of CID_EventCategory, CID_EventQualifiers and CID_EventCodes
\* that the codes below use
CID_EventCategory ==
    (<<"L">> :> "Protection Loop") @@ (<<"N">> :> "Open/Close")
      @@ (<<"Z">> :> "Miscellaneous") @@ (<<"*">> :> "Customized")

CID_EventQualifiers ==
    [sel \in {"a", "b", "c", "d"} |->
        CASE sel = "a" -> ("1" :> "New event") @@ ("3" :> "Restore event")
                            @@ ("6" :> "Duplicate message")
          [] sel = "b" -> ("1" :> "Open event") @@ ("3" :> "Close event")
                            @@ ("6" :> "Duplicate message")
          [] sel = "c" -> ("1" :> "Start event") @@ ("3" :> "End event")
                            @@ ("6" :> "Duplicate message")
          [] sel = "d" -> ("1" :> "Activation event")
                            @@ ("3" :> "Deactivation event")
                            @@ ("6" :> "Duplicate message")]

CID_EventCodes ==
    (<<"3", "7", "3">> :> <<<<"L">>, "Fire trouble", "Z", "a">>)
      @@ (<<"4", "0", "1">> :> <<<<"N">>, "Open/Close by User", "U", "b">>)
      @@ (<<"9", "9", "9">> :>
            <<<<"Z">>, "1 and 1/3 day no read log event", "X", "a">>)
      @@ (<<"7", "5", "0">> :>
            <<<<"*">>, "Assign Your Own Description", "?", "a">>)

\* str.upper on the verbosity given to the constructor
upper(str) ==
    CASE str = "verbose" -> "VERBOSE" [] str = "normal" -> "NORMAL"
      [] str = "terse" -> "TERSE" [] str = "debug" -> "DEBUG" [] OTHER -> str

decodeLevel_asGiven(decodelvl) == upper(decodelvl)

\* DecodeCID.__init__: a verbosity that is none of the three is NORMAL
decodeLevel(decodelvl) ==
    IF upper(decodelvl) \notin {"VERBOSE", "NORMAL", "TERSE"}
    THEN "NORMAL" ELSE upper(decodelvl)

\* reply.replace('!', '')
noBang(reply) == SelectSeq(reply, LAMBDA piece : piece # "!")

\* thisCID[a:b], counted from 1
slice(str, a, b) ==
    SubSeq(str, IF a < Len(str) THEN a ELSE Len(str) + 1,
           IF b < Len(str) THEN b ELSE Len(str))

agentOf_rawId(kind, CID_AgentID, zones, users) == <<"ID:">> \o CID_AgentID

\* the agent part: the label of the user or of the zone, the raw id, or the
\* text for a KeyError
agentOf(kind, CID_AgentID, zones, users) ==
    CASE kind = "U" ->
            IF CID_AgentID \in DOMAIN users
            THEN <<"User:">> \o users[CID_AgentID]
            ELSE <<"Unknown user/zone/agent">>
      [] kind = "Z" ->
            IF CID_AgentID \in DOMAIN zones
            THEN <<"Zone:">> \o zones[CID_AgentID]
            ELSE <<"Unknown user/zone/agent">>
      [] kind = "X" -> <<"ID:">> \o CID_AgentID
      [] OTHER -> <<"User: ???">>

\* getDescription, for an object made with the verbosity in.decodelvl and
\* given the tables in.zones and in.users.  thisCID[0] raises IndexError on
\* an empty code; a KeyError of the last try block (the qualifier digit is
\* not in the row of the selector) gives 'Unable to decode CID'.
getDescription(in) ==
    LET thisCID == in.CID
        CID_QualCode == thisCID[1]
        CID_Event == slice(thisCID, 2, 4)
        CID_Partition == slice(thisCID, 5, 6)
        CID_AgentID == slice(thisCID, 7, 9)
        resultTuple == CID_EventCodes[CID_Event]
        EQselector == resultTuple[4]
        agent == agentOf(resultTuple[3], CID_AgentID, in.zones, in.users)
        level == decodeLevel(in.decodelvl)
        known == CID_QualCode \in DOMAIN CID_EventQualifiers[EQselector]
        qualifier == CID_EventQualifiers[EQselector][CID_QualCode]
    IN  IF thisCID = <<>>
        THEN [raised |-> TRUE, reply |-> <<>>]
        ELSE IF CID_Event \notin DOMAIN CID_EventCodes
        THEN [raised |-> FALSE,
              reply |-> <<"No description available for CID event code ">>
                          \o CID_Event]
        ELSE IF level = "VERBOSE"
        THEN IF resultTuple[1] \in DOMAIN CID_EventCategory /\ known
             THEN [raised |-> FALSE,
                   reply |-> noBang(<<"Partition:">> \o CID_Partition
                               \o <<", ", CID_EventCategory[resultTuple[1]],
                                    ", ", qualifier, ":">> \o CID_Event
                               \o <<" ", resultTuple[2], ", ">> \o agent)]
             ELSE [raised |-> FALSE, reply |-> <<"Unable to decode CID">>]
        ELSE IF level = "NORMAL"
        THEN IF known
             THEN [raised |-> FALSE,
                   reply |-> noBang(<<"Partition:">> \o CID_Partition
                               \o <<", ", qualifier, ":">> \o CID_Event
                               \o <<" ", resultTuple[2], ", ">> \o agent)]
             ELSE [raised |-> FALSE, reply |-> <<"Unable to decode CID">>]
        ELSE IF level = "TERSE"
        THEN [raised |-> FALSE,
              reply |-> noBang(<<"Partition:">> \o CID_Partition
                                 \o <<", ", resultTuple[2], ", ">> \o agent)]
        ELSE [raised |-> FALSE,
              reply |-> <<"CID-003E Invalid input - unable to decode CID">>]

\* the codes handed to getDescription: every qualifier digit, four events of
\* the table and one that is not in it, two partitions, an agent id that is
\* a zone and a user, one that is a user only and one that is neither; and
\* the empty text
EventInputs ==
    DOMAIN CID_EventCodes \cup {<<"0", "0", "0">>}
PartitionInputs == {<<"0", "1">>, <<"0", "2">>}
AgentInputs == {<<"0", "0", "1">>, <<"0", "0", "3">>, <<"9", "9", "0">>}
CIDInputs ==
    {<<q>> \o e \o pt \o ag \o <<"0">> :
        q \in Digits, e \in EventInputs, pt \in PartitionInputs,
        ag \in AgentInputs} \cup {<<>>}

\* the name tables given to setZones and setUsers: rows with the labels of
\* the class tables, and a zone label that holds a "!"
ZoneTables ==
    {(<<"0", "0", "1">> :> <<"zone-1">>),
     (<<"0", "0", "1">> :> <<"Smoke", "!", " detector">>)}
UserTables ==
    {(<<"0", "0", "1">> :> <<"Installer">>)
       @@ (<<"0", "0", "3">> :> <<"user-3">>)}
LevelInputs == {"VERBOSE", "NORMAL", "TERSE", "verbose", "debug"}

MaxDecodes == 2

DecodeInit ==
    /\ cidIn \in [CID : CIDInputs, decodelvl : LevelInputs,
                   zones : ZoneTables, users : UserTables]
    /\ cidOut = <<>>

GetDescription ==
    /\ Len(cidOut) < MaxDecodes
    /\ cidOut' = Append(cidOut, getDescription(cidIn))
    /\ UNCHANGED cidIn
    /\ UNCHANGED notDecode

DecodeNext == GetDescription

InitDecode ==
    /\ DecodeInit /\ LoopInit /\ ModemIdle /\ GateIdle /\ EscIdle
    /\ AlertsIdle /\ FramesIdle /\ ServiceIdle /\ tn = "open"

SpecDecode == InitDecode /\ [][DecodeNext]_vars

\* -------------------------------------- TelnetEVL4: doType01, doType00
\* Frames and replies are sequences of characters.
HexChars == <<"0", "1", "2", "3", "4", "5", "6", "7", "8", "9", "A", "B", "C",
              "D", "E", "F">>
DigitChars == <<"0", "1", "2", "3", "4", "5", "6", "7", "8", "9">>

hexVal(c) == CHOOSE v \in 0..15 : HexChars[v + 1] = c

\* int(str, 16)
RECURSIVE int16(_)
int16(str) ==
    IF str = <<>> THEN 0
    ELSE int16(SubSeq(str, 1, Len(str) - 1)) * 16 + hexVal(str[Len(str)])

\* n & 1 << k
bit(n, k) == (n \div 2 ^ k) % 2 = 1

\* '%03d' % n
fmt03d(n) ==
    <<DigitChars[((n \div 100) % 10) + 1], DigitChars[((n \div 10) % 10) + 1],
      DigitChars[(n % 10) + 1]>>

\* str.split(c)
RECURSIVE splitOn(_, _)
splitOn(str, c) ==
    IF \A i \in DOMAIN str : str[i] # c THEN <<str>>
    ELSE LET i == CHOOSE j \in DOMAIN str :
                      str[j] = c /\ \A k \in 1..(j - 1) : str[k] # c
         IN  <<SubSeq(str, 1, i - 1)>>
               \o splitOn(SubSeq(str, i + 1, Len(str)), c)

\* str.strip(cs) for a set of characters
RECURSIVE strip(_, _)
strip(str, cs) ==
    IF str = <<>> THEN str
    ELSE IF str[1] \in cs THEN strip(Tail(str), cs)
    ELSE IF str[Len(str)] \in cs THEN strip(SubSeq(str, 1, Len(str) - 1), cs)
    ELSE str

bitOrder_plain == <<0, 1, 2, 3, 4, 5, 6, 7, 8, 9, 10, 11, 12, 13, 14, 15>>

\* the bit tested by the k-th test of a group, which adds zone 16 * x + k
bitOrder == <<8, 9, 10, 11, 12, 13, 14, 15, 0, 1, 2, 3, 4, 5, 6, 7>>

\* the sixteen tests of one group, from test k on
RECURSIVE groupZones(_, _, _)
groupZones(zbits, x, k) ==
    IF k > 16 THEN <<>>
    ELSE (IF bit(zbits, bitOrder[k]) THEN fmt03d(16 * x + k) \o <<",">>
          ELSE <<>>) \o groupZones(zbits, x, k + 1)

\* the loop of doType01 from group x on; the trailing comma is stripped at
\* the end of every pass
RECURSIVE zoneLoop(_, _, _)
zoneLoop(zones, x, znums) ==
    IF x = 8 THEN znums
    ELSE LET fourhex == SubSeq(zones, x * 4 + 1, x * 4 + 4)
             zbits == int16(fourhex)
             added == znums \o groupZones(zbits, x, 1)
         IN  zoneLoop(zones, x + 1,
                      IF added # <<>> THEN strip(added, {","}) ELSE added)

doType01(msg) ==
    LET msglst == splitOn(msg, ",")
        zones == strip(msglst[2], {"$"})
    IN  zoneLoop(zones, 0, <<>>)

\* the bitmaps handed to doType01: a bit is <<group, position>>.  Every
\* bitmap with one bit set, and every set of the bits of SomeBits.
BitPositions == (0..7) \X (0..15)
SomeBits == {<<0, 11>>, <<0, 15>>, <<0, 0>>, <<1, 8>>, <<7, 6>>, <<7, 7>>}
ZoneBitmaps == {{p} : p \in BitPositions} \cup SUBSET SomeBits

RECURSIVE groupValue(_, _, _)
groupValue(bits, x, b) ==
    IF b > 15 THEN 0
    ELSE (IF <<x, b>> \in bits THEN 2 ^ b ELSE 0) + groupValue(bits, x, b + 1)

hex4(n) ==
    <<HexChars[((n \div 4096) % 16) + 1], HexChars[((n \div 256) % 16) + 1],
      HexChars[((n \div 16) % 16) + 1], HexChars[(n % 16) + 1]>>

RECURSIVE zoneField(_, _)
zoneField(bits, x) ==
    IF x = 8 THEN <<>>
    ELSE hex4(groupValue(bits, x, 0)) \o zoneField(bits, x + 1)

zoneFrame(bits) == <<"%", "0", "1", ",">> \o zoneField(bits, 0) \o <<"$">>

ZonesInit ==
    /\ zoneIn \in {[bits |-> b, msg |-> zoneFrame(b)] : b \in ZoneBitmaps}
    /\ zoneOut = <<>>

DoType01 ==
    /\ zoneOut = <<>>
    /\ zoneOut' = <<doType01(zoneIn.msg)>>
    /\ UNCHANGED zoneIn
    /\ UNCHANGED notZones

ZonesNext == DoType01

InitZones ==
    /\ ZonesInit /\ LoopInit /\ ModemIdle /\ GateIdle /\ EscIdle
    /\ AlertsIdle /\ DecodeIdle /\ KeypadIdle /\ ServiceIdle /\ tn = "open"

SpecZones == InitZones /\ [][ZonesNext]_vars

\* ------------------------------------------------ TelnetEVL4.doType00
\* The status text is a sequence of pieces: a phrase, or ",".  The keypad
\* text of a frame is a sequence of words.
KeypadTests_noElse ==
    <<<<15, "ARMED STAY", "">>, <<14, "LOW BATTERY", "">>, <<13, "FIRE", "">>,
      <<12, "SYSTEM READY", "">>, <<9, "SYSTEM TROUBLE", "">>,
      <<8, "FIRE ZONE ALARM", "">>, <<7, "ARMED NO DELAY", "">>,
      <<5, "CHIME", "">>, <<4, "ZONES BYPASSED", "">>,
      <<3, "AC PRESENT", "">>, <<2, "ARMED AWAY", "">>,
      <<1, "ALARM IN MEMORY", "">>, <<0, "ALARMED STATE", "">>>>

\* the bit tests of doType00 in their order: the bit, the phrase added when
\* it is set, and the phrase of the else branch ("": none)
KeypadTests ==
    <<<<15, "ARMED STAY", "">>, <<14, "LOW BATTERY", "">>, <<13, "FIRE", "">>,
      <<12, "SYSTEM READY", "">>, <<9, "SYSTEM TROUBLE", "">>,
      <<8, "FIRE ZONE ALARM", "">>, <<7, "ARMED NO DELAY", "">>,
      <<5, "CHIME", "">>, <<4, "ZONES BYPASSED", "">>,
      <<3, "AC PRESENT", "AC LOSS">>, <<2, "ARMED AWAY", "">>,
      <<1, "ALARM IN MEMORY", "">>, <<0, "ALARMED STATE", "">>>>

RECURSIVE keypadFlags(_, _)
keypadFlags(myint, k) ==
    IF k > Len(KeypadTests) THEN <<>>
    ELSE (IF bit(myint, KeypadTests[k][1]) THEN <<KeypadTests[k][2], ",">>
          ELSE IF KeypadTests[k][3] # "" THEN <<KeypadTests[k][3], ",">>
          ELSE <<>>) \o keypadFlags(myint, k + 1)

\* msg.count(word) > 0
count(msg, word) == \E i \in DOMAIN msg : msg[i] = word

doType00(msg) ==
    LET msglist == splitOn(msg, ",")
        myint == int16(msglist[3])
        status == keypadFlags(myint, 1)
                    \o (IF count(msg, "NIGHT-STAY") THEN <<"NIGHT-STAY", ",">>
                        ELSE <<>>)
                    \o (IF count(msg, "DISARMED") THEN <<"DISARMED", ",">>
                        ELSE <<>>)
    IN  strip(status, {" ", ","})

\* the frames handed to doType00: every 16-bit status, and keypad texts
\* with and without the two words
StatusValues == 0..65535
KeypadTexts ==
    {<<"Ready to Arm">>, <<"****", "DISARMED", "****">>,
     <<"ARMED", "***", "NIGHT-STAY", "***">>,
     <<"DISARMED", " ", "NIGHT-STAY">>}

keypadFrame(status, text) ==
    <<"%", "0", "0", ",", "0", "1", ",">> \o hex4(status)
      \o <<",", "0", "8", ",", "0", "3", ",">> \o text \o <<"$">>

KeypadInit ==
    /\ keypadIn \in {[status |-> n, text |-> t, msg |-> keypadFrame(n, t)] :
                        n \in StatusValues, t \in KeypadTexts}
    /\ keypadOut = <<>>

DoType00 ==
    /\ keypadOut = <<>>
    /\ keypadOut' = <<doType00(keypadIn.msg)>>
    /\ UNCHANGED keypadIn
    /\ UNCHANGED notKeypad

KeypadNext == DoType00

InitKeypad ==
    /\ KeypadInit /\ LoopInit /\ ModemIdle /\ GateIdle /\ EscIdle
    /\ AlertsIdle /\ DecodeIdle /\ ZonesIdle /\ ServiceIdle /\ tn = "open"

SpecKeypad == InitKeypad /\ [][KeypadNext]_vars

\* ------------------------------------ TelnetEVL4.getCurrentStatus
StatusRounds == 10
StatusTexts == {"SYSTEM READY,AC PRESENT", "ARMED AWAY,AC PRESENT"}

\* what one getNextMessage of the loop can read: a keypad frame with its
\* decoded text, or anything that leaves the keypad history alone (another
\* frame, a timeout, a failed read followed by doReconnect)
StatusFrames ==
    {[type |-> "%00", txt |-> st] : st \in StatusTexts}
      \cup {[type |-> "none", txt |-> ""]}

\* getNextMessage on the keypad history: the text is stored, then pruneAll
storeStatus(hist, frame) ==
    KeepLast(IF frame.type = "%00" THEN Append(hist, frame.txt) ELSE hist,
             TEL_MAX_HISTORY)

\* msg = recentMsgs['msg00txt'][keys[0]] if len(keys) > 1
sample(hist, msg) == IF Len(hist) > 1 THEN hist[Len(hist)] ELSE msg

StatusInit ==
    /\ msg00txt \in UNION {[1..n -> StatusTexts] : n \in 0..TEL_MAX_HISTORY}
    /\ gcs = <<[x |-> 0, half |-> 1, msg1 |-> "None", msg2 |-> "None",
                reads |-> 0, ret |-> <<>>]>>

\* the first getNextMessage of a round, and msg1
FirstRead(frame) ==
    /\ gcs[1].ret = <<>> /\ gcs[1].half = 1
    /\ msg00txt' = storeStatus(msg00txt, frame)
    /\ gcs' = <<[gcs[1] EXCEPT !.half = 2,
                                !.msg1 = sample(msg00txt', @),
                                !.reads = @ + 1]>>
    /\ UNCHANGED notStatus

\* the second getNextMessage of a round, msg2, the comparison, and the
\* return at the break or after the last round
SecondRead(frame) ==
    /\ gcs[1].ret = <<>> /\ gcs[1].half = 2
    /\ msg00txt' = storeStatus(msg00txt, frame)
    /\ LET msg2 == sample(msg00txt', gcs[1].msg2)
           agree == gcs[1].msg1 # "None" /\ msg2 # "None"
                      /\ gcs[1].msg1 = msg2
       IN  gcs' = <<[gcs[1] EXCEPT
                       !.half = 1, !.msg2 = msg2, !.reads = @ + 1,
                       !.x = IF agree THEN @ ELSE @ + 1,
                       !.ret = IF agree \/ gcs[1].x + 1 = StatusRounds
                               THEN <<msg2>> ELSE <<>>]>>
    /\ UNCHANGED notStatus

StatusNext ==
    \/ \E frame \in StatusFrames : FirstRead(frame)
    \/ \E frame \in StatusFrames : SecondRead(frame)

InitStatus ==
    /\ StatusInit /\ LoopInit /\ ModemIdle /\ GateIdle /\ EscIdle
    /\ AlertsIdle /\ DecodeIdle /\ FramesIdle /\ BootIdle /\ InboundIdle
    /\ OrderIdle /\ CorrIdle /\ tn = "open"

SpecStatus == InitStatus /\ [][StatusNext]_vars

\* -------------------------------------------- main, start-up (DPM.py)
MaxBootRetries == 2
MaxBootCount == 3

\* what the code before the main loop does once the two constructors have
\* made their attempts: the path taken, the exit code (0: no exit), the
\* persisted count of reboot attempts afterwards, and whether the
\* activation alert went to callCellPhones
startup_bothLinks(in) ==
    LET mdm == mdmOpen(in.mdmOuts, 1, <<>>).con
        tel == telLogin(in.telOuts, 1, <<>>).con
    IN  IF mdm = "None" /\ tel = "None"
        THEN [path |-> "exit", code |-> 16, RPiReboots |-> in.RPiReboots,
              alert |-> FALSE]
        ELSE [path |-> "run", code |-> 0, RPiReboots |-> 0, alert |-> TRUE]

\* startup with the count compared by <= to the maximum
startup_upToMax(in) ==
    LET mdm == mdmOpen(in.mdmOuts, 1, <<>>).con
        tel == telLogin(in.telOuts, 1, <<>>).con
    IN  IF mdm = "None" \/ tel = "None"
        THEN IF in.doRPiReboots
             THEN IF in.RPiReboots <= in.RPiRebootRetries
                  THEN [path |-> "reboot", code |-> 0,
                        RPiReboots |-> in.RPiReboots + 1, alert |-> FALSE]
                  ELSE [path |-> "exit", code |-> 8,
                        RPiReboots |-> in.RPiReboots, alert |-> FALSE]
             ELSE [path |-> "exit", code |-> 16,
                   RPiReboots |-> in.RPiReboots, alert |-> FALSE]
        ELSE [path |-> "run", code |-> 0,
              RPiReboots |-> IF in.RPiReboots # 0 THEN 0 ELSE in.RPiReboots,
              alert |-> TRUE]

startup(in) ==
    LET mdm == mdmOpen(in.mdmOuts, 1, <<>>).con
        tel == telLogin(in.telOuts, 1, <<>>).con
    IN  IF mdm = "None" \/ tel = "None"
        THEN IF in.doRPiReboots
             THEN IF in.RPiReboots < in.RPiRebootRetries
                  THEN [path |-> "reboot", code |-> 0,
                        RPiReboots |-> in.RPiReboots + 1, alert |-> FALSE]
                  ELSE [path |-> "exit", code |-> 8,
                        RPiReboots |-> in.RPiReboots, alert |-> FALSE]
             ELSE [path |-> "exit", code |-> 16,
                   RPiReboots |-> in.RPiReboots, alert |-> FALSE]
        ELSE [path |-> "run", code |-> 0,
              RPiReboots |-> IF in.RPiReboots # 0 THEN 0 ELSE in.RPiReboots,
              alert |-> TRUE]

BootInit ==
    /\ bootIn \in [mdmOuts : MdmOutcomes, telOuts : TelOutcomes,
                    doRPiReboots : BOOLEAN,
                    RPiRebootRetries : 0..MaxBootRetries,
                    RPiReboots : 0..MaxBootCount]
    /\ bootOut = <<>>

Startup ==
    /\ bootOut = <<>>
    /\ bootOut' = <<startup(bootIn)>>
    /\ UNCHANGED bootIn
    /\ UNCHANGED notBoot

BootNext == Startup

InitBoot ==
    /\ BootInit /\ LoopInit /\ ModemIdle /\ GateIdle /\ EscIdle
    /\ AlertsIdle /\ DecodeIdle /\ FramesIdle /\ StatusIdle /\ InboundIdle
    /\ OrderIdle /\ CorrIdle /\ tn = "open"

SpecBoot == InitBoot /\ [][BootNext]_vars

\* ---------------------------- process starts (startup.py, then DPM.py)
\* The persisted count of host reboot attempts over a sequence of starts.

\* rebootRasPi of startup.py
rebootRasPi(in) ==
    IF in.RPiReboots < in.RPiRebootRetries
    THEN [path |-> "reboot", code |-> 0, RPiReboots |-> in.RPiReboots + 1,
          alert |-> FALSE]
    ELSE [path |-> "exit", code |-> 8, RPiReboots |-> in.RPiReboots,
          alert |-> FALSE]

\* startup.py looks at the modem when the internet is down, or when it is
\* up and the modem is to be soft-rebooted; it sends no alert
modemChecked(in) == ~in.internet \/ in.soft

startupPy(in) ==
    LET mdm == mdmOpen(in.mdmOuts, 1, <<>>).con
    IN  IF ~modemChecked(in)
        THEN [path |-> "run", code |-> 0, RPiReboots |-> in.RPiReboots,
              alert |-> FALSE]
        ELSE IF mdm = "None"
        THEN IF in.doRPiReboots THEN rebootRasPi(in)
             ELSE [path |-> "exit", code |-> 16,
                   RPiReboots |-> in.RPiReboots, alert |-> FALSE]
        ELSE [path |-> "run", code |-> 0,
              RPiReboots |-> IF in.RPiReboots # 0 THEN 0 ELSE in.RPiReboots,
              alert |-> FALSE]

Programs == {"startup.py", "DPM.py"}

\* what one start meets: the program started, the state of the internet,
\* the soft-reboot option, and the outcomes of the connection attempts
Conditions ==
    [prog : Programs, internet : BOOLEAN, soft : BOOLEAN,
     mdmOuts : MdmOutcomes, telOuts : TelOutcomes]

StartsInit ==
    /\ \E c \in Conditions, permitted \in BOOLEAN,
          max \in 0..MaxBootRetries :
          \E n \in 0..max :
              bootIn = [prog |-> c.prog, internet |-> c.internet,
                        soft |-> c.soft, mdmOuts |-> c.mdmOuts,
                        telOuts |-> c.telOuts, doRPiReboots |-> permitted,
                        RPiRebootRetries |-> max, RPiReboots |-> n]
    /\ bootOut = <<>>

StartStartupPy ==
    /\ bootOut = <<>>
    /\ bootIn.prog = "startup.py"
    /\ bootOut' = <<startupPy(bootIn)>>
    /\ UNCHANGED bootIn
    /\ UNCHANGED notBoot

StartDPM ==
    /\ bootOut = <<>>
    /\ bootIn.prog = "DPM.py"
    /\ bootOut' = <<startup(bootIn)>>
    /\ UNCHANGED bootIn
    /\ UNCHANGED notBoot

\* the next start (after the host reboot, a restart of the service, or
\* DPM.py after startup.py) reads the count the last one left
NextStart(c) ==
    /\ bootOut # <<>>
    /\ bootIn' = [prog |-> c.prog, internet |-> c.internet, soft |-> c.soft,
                  mdmOuts |-> c.mdmOuts, telOuts |-> c.telOuts,
                  doRPiReboots |-> bootIn.doRPiReboots,
                  RPiRebootRetries |-> bootIn.RPiRebootRetries,
                  RPiReboots |-> bootOut[1].RPiReboots]
    /\ bootOut' = <<>>
    /\ UNCHANGED notBoot

StartsNext ==
    \/ StartStartupPy
    \/ StartDPM
    \/ \E c \in Conditions : NextStart(c)

InitStarts ==
    /\ StartsInit /\ LoopInit /\ ModemIdle /\ GateIdle /\ EscIdle
    /\ AlertsIdle /\ DecodeIdle /\ FramesIdle /\ StatusIdle /\ InboundIdle
    /\ OrderIdle /\ CorrIdle /\ tn = "open"

SpecStarts == InitStarts /\ [][StartsNext]_vars

\* ---------------------------------------------- doInboundSMS (DPM.py)
\* Phone numbers and request texts are sequences of characters.
LowerLetters == <<"a", "e", "g", "h", "i", "l", "m", "n", "o", "r", "s", "t", "u",
                  "w", "y">>
UpperLetters == <<"A", "E", "G", "H", "I", "L", "M", "N", "O", "R", "S", "T", "U",
                  "W", "Y">>

\* str.upper
upperChar(c) ==
    IF \E i \in DOMAIN LowerLetters : LowerLetters[i] = c
    THEN UpperLetters[CHOOSE i \in DOMAIN LowerLetters : LowerLetters[i] = c]
    ELSE c
upperStr(str) == [i \in 1..Len(str) |-> upperChar(str[i])]

\* Configuration.checkInboundPhoneSMS: the first roster entry that holds
\* inphone as a substring (<<>>: None)
checkInboundPhoneSMS(validInboundSMSPhones, inphone) ==
    LET hits == {i \in DOMAIN validInboundSMSPhones :
                    IsIn(inphone, validInboundSMSPhones[i])}
    IN  IF hits = {} THEN <<>> ELSE <<validInboundSMSPhones[Min(hits)]>>

\* the words of a request joined, a space after each
RECURSIVE joinWords(_)
joinWords(words) ==
    IF words = <<>> THEN <<>>
    ELSE Head(words) \o <<" ">> \o joinWords(Tail(words))

digitVal(c) == CHOOSE v \in 0..9 : DigitChars[v + 1] = c

\* luhn.generate: the check digit of a string of digits; from the right,
\* every second digit is doubled, 9 taken off a double above 9
RECURSIVE luhnSum(_, _)
luhnSum(str, double) ==
    IF str = <<>> THEN 0
    ELSE LET d == digitVal(str[Len(str)])
             v == IF double THEN (IF 2 * d > 9 THEN 2 * d - 9 ELSE 2 * d)
                  ELSE d
         IN  v + luhnSum(SubSeq(str, 1, Len(str) - 1), ~double)

generate(str) == (10 - (luhnSum(str, TRUE) % 10)) % 10

reverse(str) == [i \in 1..Len(str) |-> str[Len(str) + 1 - i]]

\* the arming mode as characters
armKeys(armtype) == IF armtype = "33" THEN <<"3", "3">> ELSE <<armtype>>

\* systemArm: the request doKeystrokesToPartition writes, as the partition
\* and the keystrokes
systemArm(cellphone, partition, armtype) ==
    LET cellreverse == reverse(cellphone)
        cellchk1 == generate(cellphone)
        cellchk2 == IF cellchk1 + 7 > 9 THEN cellchk1 + 7 - 9 ELSE cellchk1 + 7
    IN  [partnum |-> partition,
         keystrokes |-> SubSeq(cellreverse, 1, IF Len(cellreverse) < 2
                                               THEN Len(cellreverse) ELSE 2)
                          \o <<DigitChars[cellchk1 + 1],
                               DigitChars[cellchk2 + 1]>>
                          \o armKeys(armtype)]

\* the arming mode with STAY tested last
armModeOf_stayLast(str1) ==
    IF IsIn(<<"S", "T", "A", "Y">>, str1) THEN "3"
    ELSE IF IsIn(<<"I", "N", "S", "T", "A", "N", "T">>, str1) THEN "7"
    ELSE IF IsIn(<<"N", "I", "G", "H", "T">>, str1) THEN "33"
    ELSE "2"

\* armMode: AWAY, replaced by STAY, then by NIGHT STAY, then by INSTANT
armModeOf(str1) ==
    IF IsIn(<<"I", "N", "S", "T", "A", "N", "T">>, str1) THEN "7"
    ELSE IF IsIn(<<"N", "I", "G", "H", "T">>, str1) THEN "33"
    ELSE IF IsIn(<<"S", "T", "A", "Y">>, str1) THEN "3"
    ELSE "2"

\* the loop body of doInboundSMS for one request x: the status replies
\* handed to sendSMS and the calls of systemArm it makes, each with the
\* request it writes.  status is what getCurrentStatus returns.
doInboundSMS(in) ==
    LET validphone == checkInboundPhoneSMS(in.roster, in.sender)
        str1 == upperStr(joinWords(in.words))
        partition == IF IsIn(<<"2">>, str1) \/ IsIn(<<"T", "W", "O">>, str1)
                     THEN "2" ELSE "1"
        armMode == armModeOf(str1)
    IN  IF validphone = <<>>
        THEN [replies |-> <<>>, arms |-> <<>>, raised |-> FALSE]
        ELSE IF IsIn(<<"S", "T", "A", "T", "U", "S">>, str1)
        THEN IF in.status = "None"
             THEN [replies |-> <<>>, arms |-> <<>>, raised |-> TRUE]
             ELSE IF in.doSendSMS
             THEN [replies |-> <<[to |-> validphone[1], text |-> in.status]>>,
                   arms |-> <<>>, raised |-> FALSE]
             ELSE [replies |-> <<>>, arms |-> <<>>, raised |-> FALSE]
        ELSE IF IsIn(<<"A", "R", "M">>, str1)
        THEN [replies |-> <<>>,
              arms |-> <<[cellphone |-> validphone[1],
                          partition |-> partition, armtype |-> armMode,
                          req |-> systemArm(validphone[1], partition,
                                            armMode)]>>,
              raised |-> FALSE]
        ELSE [replies |-> <<>>, arms |-> <<>>, raised |-> FALSE]

\* the senders, rosters and requests of the model
MaxSender == 3
SenderDigits == {"1", "2"}
Senders == UNION {[1..n -> SenderDigits] : n \in 1..MaxSender}
RosterPhones == {<<"1", "2", "1">>, <<"2", "2">>}
InboundRosters ==
    {<<>>} \cup {<<ph>> : ph \in RosterPhones}
      \cup {r \in RosterPhones \X RosterPhones : r[1] # r[2]}
RequestWords ==
    {<<"S", "t", "a", "t", "u", "s", "?">>, <<"A", "r", "m">>,
     <<"s", "t", "a", "y">>, <<"h", "e", "l", "l", "o">>,
     <<"n", "i", "g", "h", "t">>, <<"i", "n", "s", "t", "a", "n", "t">>,
     <<"2">>, <<"t", "w", "o">>}
Requests ==
    {<<w>> : w \in RequestWords}
      \cup {<<w, v>> : w \in RequestWords, v \in RequestWords}
      \cup {<<<<"A", "r", "m">>, w, v>> : w \in RequestWords,
                                         v \in RequestWords}

InboundInit ==
    /\ smsIn \in [sender : Senders, roster : InboundRosters,
                   words : Requests, doSendSMS : BOOLEAN,
                   status : {"SYSTEM READY,AC PRESENT", "None"}]
    /\ smsOut = <<>>

InboundSMS ==
    /\ smsOut = <<>>
    /\ smsOut' = <<doInboundSMS(smsIn)>>
    /\ UNCHANGED smsIn
    /\ UNCHANGED notInbound

InboundNext == InboundSMS

InitInbound ==
    /\ InboundInit /\ LoopInit /\ ModemIdle /\ GateIdle /\ EscIdle
    /\ AlertsIdle /\ DecodeIdle /\ FramesIdle /\ StatusIdle /\ BootIdle
    /\ OrderIdle /\ CorrIdle /\ tn = "open"

SpecInbound == InitInbound /\ [][InboundNext]_vars

\* ------------------------------- scanSyslog and checkSyslog (DPM.py)
\* The two functions called on every window and contact-id history that
\* log lines, frames and earlier calls can build.

\* a second passes; the results of the last call are dropped with its frame
CorrTick ==
    /\ now < MaxTime
    /\ now' = now + 1
    /\ scanRet' = <<>>
    /\ scanOut' = <<>>
    /\ chkOut' = <<>>
    /\ UNCHANGED <<recentMsgs, CIDevents, logfile, crashed, evFrame, evLog,
                   evLogScanned, alertsE>>
    /\ UNCHANGED notCorr

\* the EVL4's syslog client appends a 'CID Event' line, stamped now
CorrWriteLog(c) ==
    /\ Len(logfile) < MaxPending
    /\ logfile' = Append(logfile, [ts |-> now, cid |-> c])
    /\ scanOut' = <<>>
    /\ chkOut' = <<>>
    /\ UNCHANGED <<now, recentMsgs, CIDevents, crashed, scanRet, evFrame,
                   evLog, evLogScanned, alertsE>>
    /\ UNCHANGED notCorr

\* getNextMessage stores a contact-id frame
CorrFrame(c) ==
    /\ recentMsgs' =
          getNextMessage(recentMsgs, [type |-> "%03", cid |-> c], now)
    /\ scanOut' = <<>>
    /\ chkOut' = <<>>
    /\ UNCHANGED <<now, CIDevents, logfile, crashed, scanRet, evFrame, evLog,
                   evLogScanned, alertsE>>
    /\ UNCHANGED notCorr

ScanSyslog ==
    LET r == scanSyslog(CIDevents, logfile, recentMsgs.msg03, now)
    IN  /\ CIDevents' = r.ev
        /\ logfile' = <<>>
        /\ scanRet' = r.ret
        /\ scanOut' = <<[pre |-> getLogRecsWithCID(CIDevents, logfile),
                         hist |-> recentMsgs.msg03, t |-> now,
                         ev |-> r.ev, ret |-> r.ret]>>
        /\ chkOut' = <<>>
        /\ UNCHANGED <<now, recentMsgs, crashed, evFrame, evLog,
                       evLogScanned, alertsE>>
        /\ UNCHANGED notCorr

\* The panel reports the event followed over the socket; log lines carry
\* either code.
CorrNext ==
    \/ CorrTick
    \/ \E c \in Codes : CorrWriteLog(c)
    \/ CorrFrame(CodeE)
    \/ ScanSyslog

InitCorr == LoopInit /\ ModemIdle /\ GateIdle /\ RestIdle /\ tn = "open"

SpecCorr == InitCorr /\ [][CorrNext]_vars

\* ------------------------------------------------ checkSyslog (DPM.py)
\* One call on every window and contact-id history that can be held at a
\* time t.

\* the windows getLogRecsWithCID can leave at time t
Windows(t) ==
    UNION {{[CIDs |-> c, CIDflags |-> f] :
               c \in [K -> Codes], f \in [K -> {"0", "1"}]} :
           K \in {S \in SUBSET (0..t) : Cardinality(S) <= SCAN_MAX_HISTORY}}

\* the contact-id histories getNextMessage and TPI can leave at time t
Histories(t) ==
    LET Entry == [ts : 0..t, cid : Codes, flag : {"0"}]
    IN  {h \in UNION {[1..n -> Entry] : n \in 0..TEL_MAX_HISTORY} :
            \A i \in 1..Len(h) - 1 : h[i].ts <= h[i + 1].ts}

CheckInit ==
    /\ now \in 0..MaxTime
    /\ CIDevents \in Windows(now)
    /\ \E h \in Histories(now) : recentMsgs = [NoMsgs EXCEPT !.msg03 = h]
    /\ logfile = <<>>
    /\ crashed = FALSE
    /\ scanRet = <<>>
    /\ evFrame = {}
    /\ evLog = {}
    /\ evLogScanned = FALSE
    /\ alertsE = 0

CheckSyslog(isReptd) ==
    LET r == checkSyslog(CIDevents, recentMsgs.msg03, now, isReptd)
    IN  /\ chkOut = <<>>
        /\ CIDevents' = r.ev
        /\ chkOut' = <<[pre |-> CIDevents, isReptd |-> isReptd,
                        isMatched |-> r.isMatched]>>
        /\ UNCHANGED <<now, recentMsgs, logfile, crashed, scanRet, evFrame,
                       evLog, evLogScanned, alertsE, scanOut>>
        /\ UNCHANGED notCorr

CheckNext == \E isReptd \in BOOLEAN : CheckSyslog(isReptd)

InitCheck == CheckInit /\ ModemIdle /\ GateIdle /\ RestIdle /\ tn = "open"

SpecCheck == InitCheck /\ [][CheckNext]_vars

\* ------------------- main and getCurrentStatus: the order of examination
\* The frames of the socket are read by the main loop, one per pass and
\* followed by TPI, and by getCurrentStatus, up to twenty in one call with
\* no TPI between them.
MaxArrivals == 3

\* what one read of the socket can give: a keypad frame, a contact-id
\* frame, or nothing (a timeout, another frame)
OrderFrames ==
    {[type |-> "%00", cid |-> "", txt |-> st] : st \in StatusTexts}
      \cup {[type |-> "%03", cid |-> CodeX, txt |-> ""],
             [type |-> "none", cid |-> "", txt |-> ""]}

\* the number of contact-id frames read so far, this one included; it
\* stands for the time_ns key of the frame
arrival(frame) == IF frame.type = "%03" THEN arrivals + 1 ELSE arrivals

\* one pass of the main loop: getNextMessage, then TPI
OrderMain(frame) ==
    /\ gcs = <<>> /\ ~crashed
    /\ frame.type = "%03" => arrivals < MaxArrivals
    /\ LET rm1 == getNextMessage(recentMsgs, frame, arrival(frame))
           n3 == Len(rm1.msg03)
       IN  /\ recentMsgs' = TPI(rm1).rm
           /\ crashed' = TPI(rm1).raised
           /\ examined' = IF n3 > 0 /\ rm1.msg03[n3].flag = "1"
                          THEN Append(examined, rm1.msg03[n3].ts)
                          ELSE examined
    /\ msg00txt' = storeStatus(msg00txt, frame)
    /\ arrivals' = arrival(frame)
    /\ UNCHANGED gcs
    /\ UNCHANGED notOrder

\* doInboundSMS serves a status request: getCurrentStatus is entered
OrderStatusRequest ==
    /\ gcs = <<>> /\ ~crashed
    /\ gcs' = <<[x |-> 0, half |-> 1, msg1 |-> "None", msg2 |-> "None"]>>
    /\ UNCHANGED <<recentMsgs, crashed, msg00txt, arrivals, examined>>
    /\ UNCHANGED notOrder

\* the first getNextMessage of a round of getCurrentStatus, and msg1
OrderFirstRead(frame) ==
    /\ gcs # <<>>
    /\ \A i \in DOMAIN gcs : gcs[i].half = 1
    /\ frame.type = "%03" => arrivals < MaxArrivals
    /\ recentMsgs' = getNextMessage(recentMsgs, frame, arrival(frame))
    /\ msg00txt' = storeStatus(msg00txt, frame)
    /\ arrivals' = arrival(frame)
    /\ gcs' = <<[gcs[1] EXCEPT !.half = 2,
                                !.msg1 = sample(msg00txt', @)]>>
    /\ UNCHANGED <<crashed, examined>>
    /\ UNCHANGED notOrder

\* the second getNextMessage of a round, msg2 and the comparison; at the
\* break, or after the last round, the call returns to the main loop
OrderSecondRead(frame) ==
    /\ gcs # <<>>
    /\ \A i \in DOMAIN gcs : gcs[i].half = 2
    /\ frame.type = "%03" => arrivals < MaxArrivals
    /\ recentMsgs' = getNextMessage(recentMsgs, frame, arrival(frame))
    /\ msg00txt' = storeStatus(msg00txt, frame)
    /\ arrivals' = arrival(frame)
    /\ LET msg2 == sample(msg00txt', gcs[1].msg2)
           agree == gcs[1].msg1 # "None" /\ msg2 # "None"
                      /\ gcs[1].msg1 = msg2
       IN  gcs' = IF agree \/ gcs[1].x + 1 = StatusRounds
                  THEN <<>>
                  ELSE <<[gcs[1] EXCEPT !.half = 1, !.msg2 = msg2,
                                        !.x = @ + 1]>>
    /\ UNCHANGED <<crashed, examined>>
    /\ UNCHANGED notOrder

OrderNext ==
    \/ \E frame \in OrderFrames : OrderMain(frame)
    \/ OrderStatusRequest
    \/ \E frame \in OrderFrames : OrderFirstRead(frame)
    \/ \E frame \in OrderFrames : OrderSecondRead(frame)

InitOrder == LoopInit /\ ModemIdle /\ GateIdle /\ RestIdle /\ tn = "open"

SpecOrder == InitOrder /\ [][OrderNext]_vars

\* the main loop alone: every frame is read by getNextMessage and handed to
\* TPI in the same pass.  examined records, for each contact-id frame, its
\* code and whether TPI returned a composite alert for it.
AssemblyFrames ==
    OrderFrames \cup {[type |-> "%03", cid |-> CodeE, txt |-> ""],
                      [type |-> "^00", cid |-> "", txt |-> ""]}

AssembleMain(frame) ==
    /\ ~crashed
    /\ frame.type = "%03" => arrivals < MaxArrivals
    /\ LET rm1 == getNextMessage(recentMsgs, frame, arrival(frame))
           tpi == TPI(rm1)
       IN  /\ recentMsgs' = tpi.rm
           /\ crashed' = tpi.raised
           /\ examined' = IF frame.type = "%03"
                          THEN Append(examined,
                                      [cid |-> frame.cid,
                                       alert |-> tpi.theMsg # <<>>])
                          ELSE examined
    /\ msg00txt' = storeStatus(msg00txt, frame)
    /\ arrivals' = arrival(frame)
    /\ UNCHANGED gcs
    /\ UNCHANGED notOrder

AssemblyNext == \E frame \in AssemblyFrames : AssembleMain(frame)

InitAssembly == LoopInit /\ ModemIdle /\ GateIdle /\ RestIdle /\ tn = "open"

SpecAssembly == InitAssembly /\ [][AssemblyNext]_vars

\* ------------------------------------------------------------- claims

\* C1: one physical event reported on both channels (a %03 frame and a log
\* line with the same code, their timestamps at most AdjacentSecondsEVL4
\* apart) gets exactly one doAlerts call once the main loop has seen both
\* reports.
C1_ExactlyOneAlert ==
    (/\ ~crashed
     /\ evFrame # {}
     /\ evLogScanned
     /\ \A a \in evFrame, b \in evLog : Abs(a - b) <= AdjacentSecondsEVL4)
        => alertsE = 1

Matched(ev, msg03txt, k) ==
    \E i \in 1..Len(msg03txt) :
        /\ msg03txt[i].cid = ev.CIDs[k]
        /\ Abs(msg03txt[i].ts - k) <= AdjacentSecondsEVL4

\* C2: a candidate of the log window that is unreported, recent and has no
\* contact-id entry with its code within AdjacentSecondsEVL4 stays in the
\* window until a scanSyslog call returns it: no step drops or replaces it.
C2_CandidateReported ==
    [][\A k \in DOMAIN CIDevents.CIDs :
          (/\ CIDevents.CIDflags[k] = "0"
           /\ Abs(now - k) <= RecentSecondsEVL4
           /\ ~Matched(CIDevents, recentMsgs.msg03, k)
           /\ ~Matched(CIDevents, recentMsgs'.msg03, k))
             => (/\ k \in DOMAIN CIDevents'.CIDs
                 /\ CIDevents'.CIDs[k] = CIDevents.CIDs[k])]_vars

\* C3: the reported flag is one-way: an entry flagged '1' that stays in the
\* window keeps the flag, and no scanSyslog call returns it again.
C3_ReportedOneWay ==
    [][\A k \in DOMAIN CIDevents.CIDs \cap DOMAIN CIDevents'.CIDs :
          (/\ CIDevents.CIDflags[k] = "1"
           /\ CIDevents'.CIDs[k] = CIDevents.CIDs[k])
             => (/\ CIDevents'.CIDflags[k] = "1"
                 /\ (scanRet' # <<>> => scanRet'[1].key # k))]_vars


SameMessage ==
    /\ prevCall # <<>>
    /\ lastCall # <<>>
    /\ lastCall[1].alert = prevCall[1].alert
    /\ lastCall[1].phone = prevCall[1].phone
    /\ lastCall[1].t - prevCall[1].t <= RecentSecondsSMS

Wrote(call) == IF call[1].wrote THEN 1 ELSE 0

\* C4 (as claimed): two sendSMS calls with the same text and recipient, the
\* second at most RecentSecondsSMS after the first: one transmission in
\* all, and the second call returns 8, whatever the first call returned.
C4_DuplicateWhateverFirst ==
    SameMessage =>
        (lastCall[1].rc = 8 /\ Wrote(prevCall) + Wrote(lastCall) = 1)

\* C4 (amended): when the first of the two calls returned 0 (sent), the
\* second call returns 8 and the two calls make one transmission in all.
C4_DuplicateAfterSent ==
    (SameMessage /\ prevCall[1].rc = 0) =>
        (lastCall[1].rc = 8 /\ Wrote(prevCall) + Wrote(lastCall) = 1)

C4_Witness ==
    /\ SameMessage
    /\ prevCall[1].rc = 0
    /\ lastCall[1].t - prevCall[1].t = RecentSecondsSMS
    /\ lastCall[1].rc = 8

\* the optimizeSMS call of the step just taken returned
returned == resultList # <<>> /\ ~resultList[1].opt.raised

\* sentSMS + avgphonect <= SMS_allowance, over the count the gate read
withinAllowance ==
    4 * resultList[1].opt.after.count + phoneSum(phoneCounts)
        <= 4 * SMS_Allowance

\* round(avgPhones * daysToGo / (allowance - usage) * 100)
statedRisk ==
    round(25 * phoneSum(phoneCounts) * resultList[1].opt.daysToGo,
          SMS_Allowance - resultList[1].opt.after.count)

gatePolicy ==
    LET auth == resultList[1].opt.auth
        remaining == SMS_Allowance - resultList[1].opt.after.count
    IN  /\ withinAllowance =>
              /\ auth[1]
              /\ remaining # 0 =>
                    /\ resultList[1].opt.riskpc = statedRisk
                    /\ statedRisk < 100 => auth = <<TRUE, TRUE, TRUE>>
                    /\ statedRisk >= 100 => auth = <<TRUE, FALSE, FALSE>>
        /\ ~withinAllowance => auth = <<FALSE, FALSE, FALSE>>

\* C5 (as claimed): for every usage, allowance, roster sizes and days to
\* go, optimizeSMS authorizes Red, Yellow and Reboot when usage + avgPhones
\* <= allowance and the risk is below 100, Red only when the risk is 100
\* or more, and nothing when usage + avgPhones > allowance; the risk is
\* round(avgPhones * daysToGo / (allowance - usage) * 100).
C5_GatePolicyEveryRoster ==
    returned => gatePolicy

\* C5 (amended): the gate policy holds whenever at least one phone is
\* configured in some roster (avgPhones > 0).
C5_GatePolicy ==
    (returned /\ phoneSum(phoneCounts) > 0) => gatePolicy

C5_Witness ==
    /\ returned
    /\ phoneSum(phoneCounts) > 0
    /\ 4 * resultList[1].opt.after.count + phoneSum(phoneCounts)
         = 4 * SMS_Allowance
    /\ resultList[1].opt.riskpc = 100
    /\ resultList[1].opt.auth = <<TRUE, FALSE, FALSE>>

zeroRemaining ==
    /\ returned
    /\ phoneSum(phoneCounts) > 0
    /\ resultList[1].opt.after.count = SMS_Allowance

C9_NoPhonesNoSend ==
    (resultList # <<>> /\ phoneSum(phoneCounts) = 0) =>
        /\ resultList[1].opt.auth = <<FALSE, FALSE, FALSE>>
        /\ sendCalls = 0
        /\ SMS_Count = resultList[1].opt.after.count

C9_Witness ==
    /\ returned
    /\ phoneSum(phoneCounts) = 0
    /\ resultList[1].opt.after.count < SMS_Allowance
    /\ sendCalls = 0

\* datetime a is earlier than datetime b
precedes(a, b) ==
    \/ toordinal(a.date) < toordinal(b.date)
    \/ toordinal(a.date) = toordinal(b.date) /\ a.tod < b.tod

\* 00:00:00 of the renewal day of the current month
boundaryThisMonth ==
    [date |-> [Days[dayIdx] EXCEPT !.d = RenewalDay], tod |-> 0]

\* 00:00:00 of the latest renewal day that is not after today
mostRecentBoundary ==
    LET today == Days[dayIdx]
    IN  IF today.d >= RenewalDay THEN boundaryThisMonth
        ELSE IF today.m = 1
             THEN [date |-> [y |-> today.y - 1, m |-> 12, d |-> RenewalDay],
                   tod |-> 0]
             ELSE [date |-> [y |-> today.y, m |-> today.m - 1,
                             d |-> RenewalDay], tod |-> 0]

\* C7: renewal check of optimizeSMS.  On a day of month at or past the
\* renewal day, a last-sent date that precedes 00:00:00 of the renewal day
\* of the current month has the persisted counters reset to (0, UNKNOWN);
\* a last-sent date after that boundary leaves the counters unchanged.
C7_RenewalCheck ==
    (resultList # <<>> /\ resultList[1].opt.before.latest # <<>>) =>
        LET r == resultList[1].opt
            last == r.before.latest[1]
        IN  /\ (Days[dayIdx].d >= RenewalDay
                   /\ precedes(last, boundaryThisMonth))
                  => r.after = [count |-> 0, latest |-> <<>>]
            /\ precedes(boundaryThisMonth, last) => r.after = r.before

C7_Witness ==
    /\ resultList # <<>>
    /\ resultList[1].opt.before.latest # <<>>
    /\ resultList[1].opt.before.count > 0
    /\ Days[dayIdx].d >= RenewalDay
    /\ precedes(resultList[1].opt.before.latest[1], boundaryThisMonth)
    /\ resultList[1].opt.after = [count |-> 0, latest |-> <<>>]
    /\ SMS_LatestDate # <<>>

\* C8: the persisted SMS count never decreases between two renewal
\* boundaries, and every boundary that has passed has had its reset when
\* optimizeSMS returns from its first call after it, whatever the day of
\* month of that call: the counters then hold nothing older than the most
\* recent boundary.  (Renewal days every month has.)
C8_MonotonicResetPerBoundary ==
    (resultList # <<>> /\ RenewalDay <= 28) =>
        LET r == resultList[1].opt
        IN  /\ r.after.latest # <<>>
                  => ~precedes(r.after.latest[1], mostRecentBoundary)
            /\ r.after.count < r.before.count
                  => /\ r.before.latest # <<>>
                     /\ precedes(r.before.latest[1], mostRecentBoundary)

\* C10: at return from getNextMessage, doPoll, doInvalidRequest,
\* doKeystrokesToPartition and getCurrentStatus every history of the
\* protocol engine holds at most 2 entries, and at return from
\* getLogRecsWithCID the scanner's window holds at most 2 entries, every
\* key it dropped being smaller than every key it kept.
C10_HistoriesBounded ==
    [][/\ \A key1 \in DOMAIN recentMsgs' :
            Len(recentMsgs'[key1]) <= TEL_MAX_HISTORY
       /\ Cardinality(DOMAIN CIDevents'.CIDs) <= SCAN_MAX_HISTORY
       /\ \A k \in DOMAIN CIDevents.CIDs \ DOMAIN CIDevents'.CIDs :
            \A j \in DOMAIN CIDevents'.CIDs : k < j]_vars

\* C11: whatever sendSMS calls were made (alerts to rosters of any size,
\* duplicates and retries included, and status replies), the SMS history
\* holds at most MAX_HISTORY entries.
C11_HistoryBounded == Len(SMS_history) <= SMS_MAX_HISTORY

\* C12: getNextMessage never raises to its caller.  Whatever the frame (any
\* prefix, payload decodable or not, empty read) and whatever the failure (a
\* failed read, tn already None), the exception is handled by one run of
\* doReconnect, and the histories it returns are all pruned to MAX_HISTORY.
C12_NeverRaises ==
    \A i \in DOMAIN telStep :
        telStep[i].op = "getNextMessage" =>
            /\ ~telStep[i].raised
            /\ (telStep[i].exc # "none") <=> (Len(telStep[i].esc) = 1)
            /\ \A key1 \in DOMAIN recentMsgs :
                   Len(recentMsgs[key1]) <= TEL_MAX_HISTORY

\* a frame that cannot be decoded was read, the reconnection failed and ended
\* in a reboot, and a history that was over capacity has been pruned
C12_Witness ==
    /\ telStep # <<>>
    /\ telStep[1].op = "getNextMessage"
    /\ telStep[1].exc = "ValueError"
    /\ telStep[1].esc[1].reboots = 1
    /\ Len(recentMsgs.req00) = TEL_MAX_HISTORY

\* one run of doReconnect: at most `retries` attempts, none after an OK; the
\* session is open after it exactly when the last attempt got OK; one reboot
\* and its settle delay exactly when all `retries` attempts failed
escalation(e) ==
    /\ Len(e.tries) <= TelRetries
    /\ \A j \in 1..(Len(e.tries) - 1) : e.tries[j] = "fail"
    /\ (e.con = "open") <=>
          (e.tries # <<>> /\ e.tries[Len(e.tries)] = "ok")
    /\ e.reboots = IF Len(e.tries) = TelRetries /\ e.con = "None"
                   THEN 1 ELSE 0
    /\ e.settle = IF e.reboots = 1 THEN RebootSettleSecs ELSE 0

\* C13: every I/O failure that an engine operation meets, on its first
\* write or read or on the request written again after a reconnection, is
\* handled by a run of doReconnect, which makes at most `retries`
\* connect-and-login attempts and stops at the first OK; the module is
\* rebooted, once, with the settle delay, only when all of them failed, and
\* the engine operation that comes after a reboot starts with
\* connect-and-login attempts again.
C13_Escalation ==
    [][/\ \A i \in DOMAIN telStep' :
            /\ ~telStep'[i].raised
            /\ (telStep'[i].exc # "none") <=> (Len(telStep'[i].esc) = 1)
            /\ \A k \in DOMAIN telStep'[i].esc :
                  escalation(telStep'[i].esc[k])
       /\ tn = "None" =>
            /\ telStep' # <<>>
            /\ Len(telStep'[1].esc) = 1
            /\ Len(telStep'[1].esc[1].tries) >= 1]_vars

\* one run of MyModem.doReconnect: at most `retries` attempts to open the
\* serial device, none after a success; the link is open after it exactly
\* when the last attempt succeeded; doReboot runs, once, exactly when all
\* `retries` attempts failed
mdmEscalation(e) ==
    /\ Len(e.tries) <= ModemRetries
    /\ \A j \in 1..(Len(e.tries) - 1) : e.tries[j] = "fail"
    /\ (e.con = "open") <=>
          (e.tries # <<>> /\ e.tries[Len(e.tries)] = "ok")
    /\ e.reboots = IF Len(e.tries) = ModemRetries /\ e.con = "None"
                   THEN 1 ELSE 0
    /\ e.booted => e.reboots = 1

sameEscalation ==
    \A i \in DOMAIN mdmStep :
        /\ mdmStep[i].failed <=> (Len(mdmStep[i].esc) = 1)
        /\ \A k \in DOMAIN mdmStep[i].esc : mdmEscalation(mdmStep[i].esc[k])

\* C14: every failure of sendSMS, getUnreadSMS or doStayAwake runs the same
\* reconnect escalation (at most `retries` reopen attempts, stopping at the
\* first success, one reboot through the boot device only when all fail),
\* and a modem that has been rebooted is Ready again (its link open) only
\* after the AT set-up sequence has been run on it.
C14_ProvisionedAfterReboot ==
    /\ sameEscalation
    /\ commscon = "open" => provisioned

\* C14, amended: every failure of sendSMS, getUnreadSMS or doStayAwake runs
\* the same reconnect escalation; the reboot leaves the link closed, no
\* operation runs the AT set-up sequence, and the link of a rebooted modem
\* is opened again by the reopen attempts of a later escalation.
C14_Escalation ==
    [][/\ sameEscalation'
       /\ \A i \in DOMAIN mdmStep' :
            \A k \in DOMAIN mdmStep'[i].esc :
                mdmStep'[i].esc[k].reboots = 1 => commscon' = "None"
       /\ provisioned' => provisioned
       /\ (commscon = "None" /\ commscon' = "open") =>
            /\ mdmStep'[1].failed
            /\ provisioned' = provisioned]_vars

\* a send failed and the modem it rebooted is in use again, its link opened
\* by the last reopen attempt of a later failure, with no AT set-up since
C14_Witness ==
    /\ commscon = "open"
    /\ ~provisioned
    /\ mdmStep # <<>>
    /\ mdmStep[1].failed
    /\ Len(mdmStep[1].esc[1].tries) = ModemRetries
    /\ \E i \in DOMAIN lastCall : lastCall[i].rc = 16

\* C15: a sendSMS call that returns the hard-failure code 16 has tried to
\* transmit the message twice (the transmission and one retry), whoever
\* called it; a call that returns 8 or 4 has not transmitted at all.
C15_RetriedOnce ==
    \A i \in DOMAIN lastCall :
        /\ lastCall[i].rc = 16 => lastCall[i].tx = 2
        /\ lastCall[i].rc \in {4, 8} => lastCall[i].tx = 0

\* C16: every sendSMS call returns one of 0, 8, 4 and 16.  It writes to the
\* serial link only when it returns 0 or 16, adds one history entry when it
\* returns 0 or 8 and none otherwise, returns 8 exactly for a recent
\* duplicate (link up or down), and 4 only with sending disabled.
C16_ReturnSignals ==
    [][ncalls' = ncalls + 1 =>
         LET c == lastCall'[1]
             dup == isDuplicate(SMS_history, c.alert, c.phone, c.t)
         IN  /\ c.rc \in {0, 4, 8, 16}
             /\ c.wrote => c.rc \in {0, 16}
             /\ c.rc = 0 => c.wrote
             /\ Len(SMS_history') =
                  Len(SMS_history) + (IF c.rc \in {0, 8} THEN 1 ELSE 0)
             /\ dup <=> c.rc = 8
             /\ c.rc = 4 => ~sendFlag
             /\ c.rc \in {0, 16} => sendFlag]_vars

\* a duplicate handed over while the serial link is down: 8 was returned,
\* nothing was written, and the history holds its entry
C16_Witness ==
    /\ lastCall # <<>>
    /\ lastCall[1].rc = 8
    /\ ~lastCall[1].wrote
    /\ commscon = "None"
    /\ Len(SMS_history) >= 2

\* the two fragments of a message: the keypad text before the separator and
\* the decoded code after it; a message without separator is both
separators(msg) == {i \in 1..Len(msg) : msg[i] = "!"}
codeFragment(msg) ==
    IF separators(msg) = {} THEN msg
    ELSE SubSeq(msg, Max(separators(msg)) + 1, Len(msg))
keypadFragment(msg) ==
    IF separators(msg) = {} THEN msg
    ELSE SubSeq(msg, 1, Min(separators(msg)) - 1)

\* a token of the list is in the fragment
hit(tokens, fragment) == \E k \in DOMAIN tokens : IsIn(tokens[k], fragment)

\* the message as the red and yellow checks are given it: as it is for a
\* message built by TPI, lower-cased for a description decoded from the log;
\* their tokens are compared as configured
compared(in) == IF in.doLowerCase THEN lower(in.msg) ELSE in.msg
suppressed(in) ==
    \E k \in DOMAIN in.NotTheseTokens :
        IsIn(lower(in.NotTheseTokens[k]), lower(codeFragment(in.msg)))
urgent(in) == hit(in.UrgentTokens, keypadFragment(compared(in)))
important(in) == hit(in.ImportantTokens, keypadFragment(compared(in)))

\* C17: a suppression token in the code fragment (case ignored) suppresses
\* the alert whatever other tokens are there; otherwise an urgent token in
\* the keypad fragment makes it Red, for the red roster only; it is Yellow
\* only when it is neither suppressed nor Red and an important token is in
\* the keypad fragment; with no token hit nothing is sent.
C17_ClassifierPriority ==
    \A i \in DOMAIN alertOut :
        LET out == alertOut[i]
        IN  /\ suppressed(alertIn) => out.class = "non" /\ out.calls = <<>>
            /\ ~suppressed(alertIn) /\ urgent(alertIn) =>
                  /\ out.class = "red"
                  /\ Len(out.calls) = 1
                  /\ rosterOf(out.calls[1]) = "red"
            /\ out.class = "yellow" <=>
                  /\ ~suppressed(alertIn)
                  /\ ~urgent(alertIn)
                  /\ important(alertIn)
            /\ out.class = "yellow" =>
                  \A k \in DOMAIN out.calls : rosterOf(out.calls[k]) = "yellow"
            /\ ~suppressed(alertIn) /\ ~urgent(alertIn) /\ ~important(alertIn)
                  => out.class = "none" /\ out.calls = <<>>

\* a message with a keypad and a code fragment, an urgent and an important
\* token in the first and a suppression token, in another case, in the
\* second: nothing was sent
C17_Witness ==
    /\ alertOut # <<>>
    /\ separators(alertIn.msg) # {}
    /\ urgent(alertIn)
    /\ important(alertIn)
    /\ suppressed(alertIn)
    /\ ~hit(alertIn.NotTheseTokens, codeFragment(alertIn.msg))
    /\ alertOut[1].calls = <<>>

\* C18: a Yellow alert is handed to callCellPhones exactly when the probe
\* reports no internet connection; a Red alert is handed to callCellPhones
\* whatever the pings would return, and the probe is not run for it.
C18_YellowOnlyOffline ==
    \A i \in DOMAIN alertOut :
        LET out == alertOut[i]
        IN  /\ out.class = "yellow" =>
                  /\ out.probes = 1
                  /\ (out.calls # <<>>) <=> ~isInternetAlive(alertIn.pings)
                  /\ \A k \in DOMAIN out.calls : out.calls[k].yellowAlert
            /\ out.class = "red" =>
                  /\ out.probes = 0
                  /\ Len(out.calls) = 1
                  /\ out.calls[1].redAlert

\* a Yellow alert kept back because the second ping was answered
C18_Witness ==
    /\ alertOut # <<>>
    /\ alertOut[1].class = "yellow"
    /\ alertIn.pings[1] # 0
    /\ alertIn.pings[2] = 0
    /\ alertOut[1].calls = <<>>

\* the fields of the code handed to getDescription, and what follows the
\* last ", " of a reply
eventOf(in) == slice(in.CID, 2, 4)
partitionOf(in) == slice(in.CID, 5, 6)
agentIdOf(in) == slice(in.CID, 7, 9)
rowOf(in) == CID_EventCodes[eventOf(in)]
inTable(in) == eventOf(in) \in DOMAIN CID_EventCodes
hasQualifier(in) == in.CID[1] \in DOMAIN CID_EventQualifiers[rowOf(in)[4]]
agentAbsent(in) ==
    \/ rowOf(in)[3] = "U" /\ agentIdOf(in) \notin DOMAIN in.users
    \/ rowOf(in)[3] = "Z" /\ agentIdOf(in) \notin DOMAIN in.zones
agentPart(reply) ==
    LET commas == {i \in DOMAIN reply : reply[i] = ", "}
    IN  IF commas = {} THEN reply
        ELSE SubSeq(reply, (CHOOSE i \in commas : \A j \in commas : j <= i) + 1,
                    Len(reply))
noEventText(in) ==
    <<"No description available for CID event code ">> \o eventOf(in)

\* C19 as stated: for every 10-digit code (every qualifier digit) and every
\* verbosity getDescription returns without raising, twice the same reply;
\* an event code that is not in the table gives 'No description available
\* for CID event code <code>', and an agent id that is not in the table of
\* users or zones gives a description whose agent part is
\* 'Unknown user/zone/agent'.
C19_AgentFallbackAlways ==
    \A i \in DOMAIN cidOut :
        Len(cidIn.CID) = 10 =>
            /\ ~cidOut[i].raised
            /\ cidOut[i] = cidOut[1]
            /\ ~inTable(cidIn) => cidOut[i].reply = noEventText(cidIn)
            /\ inTable(cidIn) /\ agentAbsent(cidIn) =>
                  agentPart(cidOut[i].reply) = <<"Unknown user/zone/agent">>

\* C19 amended: for every 10-digit code and every verbosity getDescription
\* returns without raising, twice the same reply; an event code that is
\* not in the table gives the event fallback; for an event of the table, at
\* VERBOSE or NORMAL a qualifier digit other than 1, 3 and 6 gives
\* 'Unable to decode CID' and nothing else; otherwise an agent id that is
\* not in the table of users or zones gives a description whose agent part
\* is 'Unknown user/zone/agent'.
C19_TotalWithFallbacks ==
    \A i \in DOMAIN cidOut :
        Len(cidIn.CID) = 10 =>
            /\ ~cidOut[i].raised
            /\ cidOut[i] = cidOut[1]
            /\ ~inTable(cidIn) => cidOut[i].reply = noEventText(cidIn)
            /\ inTable(cidIn) /\ ~hasQualifier(cidIn)
                  /\ decodeLevel(cidIn.decodelvl) # "TERSE" =>
                  cidOut[i].reply = <<"Unable to decode CID">>
            /\ inTable(cidIn) /\ agentAbsent(cidIn)
                  /\ (hasQualifier(cidIn)
                        \/ decodeLevel(cidIn.decodelvl) = "TERSE") =>
                  agentPart(cidOut[i].reply) = <<"Unknown user/zone/agent">>

C19_Witness ==
    /\ Len(cidOut) = MaxDecodes
    /\ cidIn.CID = <<"1", "3", "7", "3", "0", "1", "9", "9", "0", "0">>
    /\ cidIn.decodelvl = "VERBOSE"
    /\ agentPart(cidOut[1].reply) = <<"Unknown user/zone/agent">>

\* the parts of a description; the reply carries them without any "!"
partitionText(in) == <<"Partition:">> \o partitionOf(in) \o <<", ">>
categoryText(in) == <<CID_EventCategory[rowOf(in)[1]], ", ">>
qualifierText(in) ==
    <<CID_EventQualifiers[rowOf(in)[4]][in.CID[1]], ":">> \o eventOf(in)
      \o <<" ">>
agentText(in) ==
    CASE rowOf(in)[3] = "U" /\ ~agentAbsent(in) ->
            <<"User:">> \o in.users[agentIdOf(in)]
      [] rowOf(in)[3] = "Z" /\ ~agentAbsent(in) ->
            <<"Zone:">> \o in.zones[agentIdOf(in)]
      [] rowOf(in)[3] = "X" -> <<"ID:">> \o agentIdOf(in)
      [] rowOf(in)[3] = "?" -> <<"User: ???">>
      [] OTHER -> <<"Unknown user/zone/agent">>
descriptionText(in) == <<rowOf(in)[2], ", ">> \o agentText(in)
verbosity(in) ==
    IF in.decodelvl \in {"VERBOSE", "verbose"} THEN "VERBOSE"
    ELSE IF in.decodelvl \in {"TERSE", "terse"} THEN "TERSE" ELSE "NORMAL"

\* C20: for an event of the table whose qualifier digit has a text, the
\* reply at VERBOSE is partition, category, qualifier text:event code
\* description, agent; at NORMAL the same without the category; at TERSE
\* partition, description, agent; each with any "!" taken out.  Code
\* 1373010010 at NORMAL reads partition 01, 'New event', 373
\* 'Fire trouble' and the label of zone 001.  A verbosity that is none of
\* the three gives the reply of NORMAL.
C20_ComposedByVerbosity ==
    \A i \in DOMAIN cidOut :
        Len(cidIn.CID) = 10 /\ inTable(cidIn) =>
            /\ verbosity(cidIn) = "VERBOSE" /\ hasQualifier(cidIn) =>
                  cidOut[i].reply =
                    noBang(partitionText(cidIn) \o categoryText(cidIn)
                             \o qualifierText(cidIn)
                             \o descriptionText(cidIn))
            /\ verbosity(cidIn) = "NORMAL" /\ hasQualifier(cidIn) =>
                  cidOut[i].reply =
                    noBang(partitionText(cidIn) \o qualifierText(cidIn)
                             \o descriptionText(cidIn))
            /\ verbosity(cidIn) = "TERSE" =>
                  cidOut[i].reply =
                    noBang(partitionText(cidIn) \o descriptionText(cidIn))
            /\ cidIn.CID = <<"1", "3", "7", "3", "0", "1", "0", "0", "1", "0">>
                  /\ cidIn.decodelvl = "NORMAL" =>
                  cidOut[i].reply =
                    noBang(<<"Partition:", "0", "1", ", ", "New event", ":",
                             "3", "7", "3", " ", "Fire trouble", ", ",
                             "Zone:">>
                             \o cidIn.zones[<<"0", "0", "1">>])
            /\ cidIn.decodelvl \notin
                  {"VERBOSE", "verbose", "NORMAL", "TERSE"} =>
                  cidOut[i] = getDescription([cidIn EXCEPT
                                                !.decodelvl = "NORMAL"])

C20_Witness ==
    /\ cidOut # <<>>
    /\ cidIn.CID = <<"1", "3", "7", "3", "0", "1", "0", "0", "1", "0">>
    /\ cidIn.decodelvl = "NORMAL"
    /\ cidOut[1].reply =
          <<"Partition:", "0", "1", ", ", "New event", ":", "3", "7", "3",
            " ", "Fire trouble", ", ", "Zone:", "zone-1">>

\* the zone of bit <<g, b>> of a bitmap, and its three digits
zoneOfBit(p) == IF p[2] >= 8 THEN 16 * p[1] + 1 + (p[2] - 8)
                ELSE 16 * p[1] + 9 + p[2]
zoneText(p) == fmt03d(zoneOfBit(p))

\* C21: a bitmap with one bit set, bit b of group g, decodes to exactly the
\* three digits of zone 16g + 1 + (b - 8) for b in 8..15 and of zone
\* 16g + 9 + b for b in 0..7; no other bit position decodes to the same
\* text, the zones of the 128 positions are 1..128, and group 0800 at group
\* index 0 decodes to 004 alone.
C21_BitToZone ==
    /\ {zoneOfBit(p) : p \in BitPositions} = 1..128
    /\ \A p \in BitPositions :
          zoneOut # <<>> /\ zoneIn.bits = {p} =>
              /\ zoneOut[1] = zoneText(p)
              /\ \A q \in BitPositions :
                    doType01(zoneFrame({q})) = zoneOut[1] => q = p
              /\ SubSeq(zoneIn.msg, 5, 8) = <<"0", "8", "0", "0">> =>
                    zoneOut[1] = <<"0", "0", "4">>

C21_Witness ==
    /\ zoneOut = <<<<"0", "0", "4">>>>
    /\ SubSeq(zoneIn.msg, 5, 8) = <<"0", "8", "0", "0">>
    /\ zoneIn.bits = {<<0, 11>>}

\* C22: for every bitmap the reply of doType01 is the comma-joined list of
\* the triggered zones: split at the commas it has one three-digit number
\* for each bit set, every triggered zone among them, and it is empty when
\* no bit is set.
C22_CommaJoined ==
    zoneOut # <<>> =>
        LET items == splitOn(zoneOut[1], ",")
        IN  IF zoneIn.bits = {} THEN zoneOut[1] = <<>>
            ELSE /\ Len(items) = Cardinality(zoneIn.bits)
                 /\ {items[i] : i \in DOMAIN items}
                      = {zoneText(p) : p \in zoneIn.bits}

\* the thirteen defined flag bits of the keypad status and their phrases
DefinedFlags ==
    (15 :> "ARMED STAY") @@ (14 :> "LOW BATTERY") @@ (13 :> "FIRE")
      @@ (12 :> "SYSTEM READY") @@ (9 :> "SYSTEM TROUBLE")
      @@ (8 :> "FIRE ZONE ALARM") @@ (7 :> "ARMED NO DELAY") @@ (5 :> "CHIME")
      @@ (4 :> "ZONES BYPASSED") @@ (3 :> "AC PRESENT") @@ (2 :> "ARMED AWAY")
      @@ (1 :> "ALARM IN MEMORY") @@ (0 :> "ALARMED STATE")
isSet(n, b) == (n \div 2 ^ b) % 2 = 1
phrasesOf(status) == {status[i] : i \in DOMAIN status} \ {","}
hasWord(text, word) == \E i \in DOMAIN text : text[i] = word

\* C23: for every 16-bit status the decoded status holds the phrase of a
\* defined flag bit exactly when the bit is set, 'AC LOSS' exactly when bit
\* 3 is clear (so exactly one of 'AC PRESENT' and 'AC LOSS'), 'NIGHT-STAY'
\* and 'DISARMED' exactly when the frame text holds the word, nothing for
\* bits 11, 10 and 6, and every phrase once, joined by commas.
C23_KeypadFlags ==
    keypadOut # <<>> =>
        LET n == keypadIn.status
            phrases == phrasesOf(keypadOut[1])
        IN  /\ \A b \in DOMAIN DefinedFlags :
                  DefinedFlags[b] \in phrases <=> isSet(n, b)
            /\ "AC LOSS" \in phrases <=> ~isSet(n, 3)
            /\ ("AC PRESENT" \in phrases) # ("AC LOSS" \in phrases)
            /\ "NIGHT-STAY" \in phrases
                  <=> hasWord(keypadIn.text, "NIGHT-STAY")
            /\ "DISARMED" \in phrases <=> hasWord(keypadIn.text, "DISARMED")
            /\ phrases \subseteq
                  {DefinedFlags[b] : b \in DOMAIN DefinedFlags}
                    \cup {"AC LOSS", "NIGHT-STAY", "DISARMED"}
            /\ Len(keypadOut[1]) = 2 * Cardinality(phrases) - 1

C23_Witness ==
    /\ keypadIn.status = 35840 + 64
    /\ hasWord(keypadIn.text, "NIGHT-STAY")
    /\ ~hasWord(keypadIn.text, "DISARMED")
    /\ keypadOut =
          <<<<"ARMED STAY", ",", "AC LOSS", ",", "NIGHT-STAY">>>>

\* C24: getCurrentStatus makes at most 10 rounds of 2 reads; it returns at
\* the first round whose two samples agree, and then that value; without
\* such a round it returns the last sample taken; and the value returned
\* is in both cases a keypad-status text of the history.
C24_ReturnsStatusText ==
    LET g == gcs[1]
    IN  /\ g.reads <= 2 * StatusRounds
        /\ g.ret = <<>> => g.x < StatusRounds
        /\ g.ret # <<>> =>
              /\ g.ret[1] = g.msg2
              /\ g.x < StatusRounds => g.msg1 = g.msg2
              /\ \E i \in DOMAIN msg00txt : msg00txt[i] = g.ret[1]

\* the links after the attempts of the two constructors
modemDown == \A x \in DOMAIN bootIn.mdmOuts : bootIn.mdmOuts[x] = "fail"
socketDown == \A x \in DOMAIN bootIn.telOuts : bootIn.telOuts[x] = "fail"
fatalCases ==
    /\ ~bootIn.doRPiReboots =>
          bootOut[1].path = "exit" /\ bootOut[1].code = 16
    /\ bootIn.doRPiReboots /\ bootIn.RPiReboots >= bootIn.RPiRebootRetries =>
          bootOut[1].path = "exit" /\ bootOut[1].code = 8
    /\ bootIn.doRPiReboots /\ bootIn.RPiReboots < bootIn.RPiRebootRetries =>
          /\ bootOut[1].path = "reboot" /\ bootOut[1].code = 0
          /\ bootOut[1].RPiReboots = bootIn.RPiReboots + 1
    /\ ~bootOut[1].alert
linksUpCase ==
    /\ bootOut[1].path = "run" /\ bootOut[1].code = 0
    /\ bootOut[1].RPiReboots = 0
    /\ bootOut[1].alert

C26_ValidatedSendersOnly ==
    smsOut # <<>> /\ (\A i \in DOMAIN smsIn.roster :
                        smsIn.roster[i] # smsIn.sender) =>
        smsOut[1].replies = <<>> /\ smsOut[1].arms = <<>>

\* the recent unreported entries of a window at time t, and those of them
\* that the contact-id history matches
RecentUnreported(ev, t) ==
    {k \in DOMAIN ev.CIDs :
        ev.CIDflags[k] = "0" /\ Abs(t - k) <= RecentSecondsEVL4}

MatchedEntries(ev, msg03txt, t) ==
    {k \in RecentUnreported(ev, t) : Matched(ev, msg03txt, k)}

LeftUnmatched ==
    {k \in RecentUnreported(CIDevents, now) :
        ~Matched(CIDevents, recentMsgs.msg03, k)}

\* C28: the unmatched entries that a scanSyslog call does not return keep
\* their unreported flag and are returned by later calls in chronological
\* order while they remain recent: the next call returns the oldest of
\* them, with its code.
C28_LeftoversInOrder ==
    [][(ScanSyslog /\ LeftUnmatched # {})
          => scanRet' = <<[key |-> Min(LeftUnmatched),
                           cid |-> CIDevents.CIDs[Min(LeftUnmatched)]]>>]_vars

\* the entries of window ev in the selected mode that are recent at t, have
\* the code of the most recent entry of the contact-id history and lie at
\* most AdjacentSecondsEVL4 from it
ModeHits(ev, msg03txt, t, isReptd) ==
    {k \in DOMAIN ev.CIDs :
        /\ ev.CIDflags[k] = (IF isReptd THEN "1" ELSE "0")
        /\ Abs(t - k) <= RecentSecondsEVL4
        /\ msg03txt # <<>>
        /\ ev.CIDs[k] = msg03txt[Len(msg03txt)].cid
        /\ Abs(msg03txt[Len(msg03txt)].ts - k) <= AdjacentSecondsEVL4}

FlagsChanged(pre, post) ==
    {k \in DOMAIN pre.CIDs : post.CIDflags[k] # pre.CIDflags[k]}

\* C29: checkSyslog returns true exactly when some entry of the selected
\* mode is recent, has the code of the most recent contact-id history entry
\* and lies at most AdjacentSecondsEVL4 from it; the window keeps its keys
\* and codes; in reported mode no flag changes; in unreported mode the
\* flag of the matched entry (the most recent such entry) changes and no
\* other; with an empty history the call returns false and changes nothing.
C29_CheckSyslog ==
    \A i \in DOMAIN chkOut :
        LET pre == chkOut[i].pre
            hits == ModeHits(pre, recentMsgs.msg03, now, chkOut[i].isReptd)
        IN  /\ chkOut[i].isMatched <=> hits # {}
            /\ CIDevents.CIDs = pre.CIDs
            /\ DOMAIN CIDevents.CIDflags = DOMAIN pre.CIDflags
            /\ chkOut[i].isReptd => CIDevents = pre
            /\ (~chkOut[i].isReptd /\ hits # {})
                  => FlagsChanged(pre, CIDevents) = {Max(hits)}
            /\ hits = {} => CIDevents = pre
            /\ recentMsgs.msg03 = <<>>
                  => ~chkOut[i].isMatched /\ CIDevents = pre

\* an unreported-mode call with two entries that match: one is flagged
C29_Witness ==
    /\ chkOut # <<>>
    /\ ~chkOut[1].isReptd
    /\ chkOut[1].isMatched
    /\ Cardinality(ModeHits(chkOut[1].pre, recentMsgs.msg03, now, FALSE)) = 2
    /\ Cardinality(FlagsChanged(chkOut[1].pre, CIDevents)) = 1
    /\ Len(recentMsgs.msg03) = 2

\* the contact-id frames read so far that TPI has not examined
Unexamined ==
    {a \in 1..arrivals : \A i \in DOMAIN examined : examined[i] # a}

\* C30: every contact-id frame read from the socket, by the main loop or by
\* getCurrentStatus, is examined by TPI once, before the history evicts it,
\* and in the order of arrival: the frames examined so far are the first
\* ones that arrived, in that order, and every later frame is still in the
\* history with the flag '1'.
C30_ArrivalOrder ==
    /\ \A i \in DOMAIN examined : examined[i] = i
    /\ \A a \in Unexamined :
          \E i \in DOMAIN recentMsgs.msg03 :
              /\ recentMsgs.msg03[i].ts = a
              /\ recentMsgs.msg03[i].flag = "1"

Keepalives == {"doPoll", "doInvalidRequest"}

\* C31: doPoll and doInvalidRequest never raise to the caller: a failed
\* write, or a write on a session that is down, runs one reconnect
\* escalation, and a failure of the request written again after a successful
\* reconnection is handled too.
C31_KeepaliveNeverRaises ==
    \A i \in DOMAIN telStep :
        telStep[i].op \in Keepalives =>
            /\ ~telStep[i].raised
            /\ (telStep[i].exc # "none") <=> (Len(telStep[i].esc) = 1)

\* C32: optimizeSMS computes the days remaining until the next renewal
\* boundary without error, for every date and renewal day: the call does
\* not raise, and the result is at least 1 and at most 31.
C32_DaysToRenewal ==
    \A i \in DOMAIN resultList :
        /\ ~resultList[i].opt.raised
        /\ resultList[i].opt.daysToGo \in 1..31

\* what a start finds: a link it looks at is unconnected
foundDown ==
    IF bootIn.prog = "DPM.py" THEN modemDown \/ socketDown
    ELSE modemChecked(bootIn) /\ modemDown

foundUp ==
    IF bootIn.prog = "DPM.py" THEN ~modemDown /\ ~socketDown
    ELSE modemChecked(bootIn) /\ ~modemDown

\* C33: over any sequence of starts of startup.py and DPM.py the persisted
\* count of host reboot attempts stays at or below RasPiRebootRetries; a
\* start that finds a link down with reboots permitted and attempts
\* remaining adds exactly 1 and requests the reboot; with the count at the
\* maximum no reboot is requested and the process exits with code 8; a
\* start that finds the links up leaves the count at 0.
C33_RebootCountBounded ==
    /\ bootIn.RPiReboots <= bootIn.RPiRebootRetries
    /\ \A i \in DOMAIN bootOut :
          LET out == bootOut[i]
              remaining == bootIn.RPiReboots < bootIn.RPiRebootRetries
          IN  /\ out.RPiReboots <= bootIn.RPiRebootRetries
              /\ out.path = "reboot"
                    <=> (foundDown /\ bootIn.doRPiReboots /\ remaining)
              /\ out.path = "reboot"
                    => out.RPiReboots = bootIn.RPiReboots + 1
              /\ (foundDown /\ bootIn.doRPiReboots /\ ~remaining)
                    => (out.path = "exit" /\ out.code = 8)
              /\ out.path # "reboot" /\ ~foundUp
                    => out.RPiReboots = bootIn.RPiReboots
              /\ foundUp => out.RPiReboots = 0

\* a start of DPM.py that finds a link down with the count at the maximum,
\* reached by earlier reboots, and exits with code 8
C33_Witness ==
    /\ bootOut # <<>>
    /\ bootIn.prog = "DPM.py"
    /\ bootIn.RPiRebootRetries = 2 /\ bootIn.RPiReboots = 2
    /\ foundDown
    /\ bootOut[1].path = "exit" /\ bootOut[1].code = 8

\* the upper-case text of the request, and whether it holds a word
requestText == upperStr(joinWords(smsIn.words))
textHas(word) == IsIn(word, requestText)
senderValid == checkInboundPhoneSMS(smsIn.roster, smsIn.sender) # <<>>

endsWith(str, tail) ==
    Len(str) >= Len(tail)
      /\ SubSeq(str, Len(str) - Len(tail) + 1, Len(str)) = tail

\* C34: for a text from a validated sender, a request that holds STATUS
\* sends no keystrokes; one that holds ARM and no STATUS sends one keystroke
\* request, to partition 2 when the text holds '2' or 'TWO' and to
\* partition 1 otherwise, whose keystrokes end with the arming mode 7
\* (INSTANT), else 33 (NIGHT), else 3 (STAY), else 2 (AWAY); a text with
\* neither sends nothing.
C34_ArmOnly ==
    smsOut # <<>> /\ senderValid =>
        LET arms == smsOut[1].arms
            mode == IF textHas(<<"I", "N", "S", "T", "A", "N", "T">>)
                    THEN <<"7">>
                    ELSE IF textHas(<<"N", "I", "G", "H", "T">>)
                    THEN <<"3", "3">>
                    ELSE IF textHas(<<"S", "T", "A", "Y">>) THEN <<"3">>
                    ELSE <<"2">>
            part == IF textHas(<<"2">>) \/ textHas(<<"T", "W", "O">>)
                    THEN "2" ELSE "1"
        IN  /\ textHas(<<"S", "T", "A", "T", "U", "S">>) => arms = <<>>
            /\ (~textHas(<<"S", "T", "A", "T", "U", "S">>)
                   /\ textHas(<<"A", "R", "M">>))
                  => /\ Len(arms) = 1
                     /\ arms[1].req.partnum = part
                     /\ endsWith(arms[1].req.keystrokes, mode)
                     /\ Len(arms[1].req.keystrokes) = 4 + Len(mode)
            /\ (~textHas(<<"S", "T", "A", "T", "U", "S">>)
                   /\ ~textHas(<<"A", "R", "M">>))
                  => arms = <<>> /\ smsOut[1].replies = <<>>

\* 'Arm night stay' from a validated sender: NIGHT overrides STAY, and the
\* keystrokes end with 33 for partition 1
C34_Witness ==
    /\ smsOut # <<>> /\ senderValid
    /\ smsIn.words = <<<<"A", "r", "m">>, <<"n", "i", "g", "h", "t">>,
                       <<"s", "t", "a", "y">>>>
    /\ Len(smsOut[1].arms) = 1
    /\ smsOut[1].arms[1].req.partnum = "1"
    /\ endsWith(smsOut[1].arms[1].req.keystrokes, <<"3", "3">>)

\* C35: inside one billing cycle the persisted SMS count never exceeds the
\* allowance: a call of callCellPhones that starts within the allowance
\* ends within it, whatever roster it sends to
C35_BudgetInvariant ==
    [][((\E cat \in Categories, ok \in 0..MaxCycleRoster :
            CallCellPhones(cat, ok))
        /\ SMS_Count <= SMS_Allowance)
       => SMS_Count' <= SMS_Allowance]_vars

\* C36: whichever channel reports an event, the classification (suppressed,
\* Red, Yellow or none) and the rosters called are those the other channel
\* would have given
rostersCalled(o) == [k \in DOMAIN o.calls |-> rosterOf(o.calls[k])]

C36_ChannelsClassifyAlike ==
    \A i \in DOMAIN alertOut :
        /\ alertOut[i].out.class = alertOut[i].other.class
        /\ rostersCalled(alertOut[i].out) = rostersCalled(alertOut[i].other)

\* two sendSMS calls in a row with the same text and recipient, the second
\* at most RecentSecondsSMS after the first
chained(i, j) ==
    /\ lastCall[j].alert = prevCall[i].alert
    /\ lastCall[j].phone = prevCall[i].phone
    /\ lastCall[j].t - prevCall[i].t <= RecentSecondsSMS

C38_OneAlertPerCodeChange ==
    \A i \in DOMAIN examined :
        examined[i].alert <=> (i = 1 \/ examined[i].cid # examined[i - 1].cid)

\* C39: TPI does not fail on any combination of histories getNextMessage
\* can return: no pass of the main loop ends in an exception raised by TPI,
\* and each new contact-id frame whose code differs from the one before it
\* got its composite alert
C39_AssemblyTotal ==
    /\ ~crashed
    /\ \A i \in DOMAIN examined :
          (i = 1 \/ examined[i].cid # examined[i - 1].cid) => examined[i].alert

\* a step of the control loop in which at least one sendSMS call returned 0:
\* callCellPhones for an alert, or doInboundSMS replying to a status request
transmits ==
    \/ \E cat \in Categories, ok \in 1..MaxRoster : CallCellPhones(cat, ok)
    \/ \E rlen \in 1..2, replies \in 1..1 : DoInboundSMS(rlen, replies)

\* C40: every SMS transmission passes the budget gate: a step that transmits
\* called optimizeSMS, and optimizeSMS authorized the category of the message
C40_GateBeforeEverySend ==
    [][transmits =>
          /\ resultList' # <<>>
          /\ \A i \in DOMAIN resultList' :
                /\ ~resultList'[i].opt.raised
                /\ resultList'[i].opt.auth[catIndex(resultList'[i].cat)]]_vars

====
